---- MODULE Spec2Model ----
(***************************************************************************)
(* Peer discovery and signaling of zoya-whisper-stream.                    *)
(*                                                                         *)
(* Receiver: src/src/components/ParentMonitor.tsx, first component         *)
(*           (lines 28-594): device scan and session negotiation.          *)
(* Sender:   src/src/components/BabyMonitor.tsx: answering inbound offers  *)
(*           and the connected-parents count.                              *)
(*                                                                         *)
(* Several specifications share the module, one per engine:                *)
(*   SpecReceiver   the receiver's session negotiation                     *)
(*   SpecCandidates the candidate exchange of one connection attempt       *)
(*   SpecManual     manual connection next to a scan that is ending        *)
(*   SpecScan       the receiver's device scan and directory               *)
(*   SpecExpire     the directory cleanup at the end of a scan             *)
(*   SpecScanEnd    the last second of a scan and its timeout              *)
(*   SpecSender     the sender's per-receiver sessions                     *)
(*   SpecAnnounce   the sender's advertising                               *)
(*   SpecHandshake  request and answer between one receiver and one sender *)
(*   SpecBroadcast  the older broadcast variant with a teardown notice     *)
(*                  (ParentMonitor.tsx second component, part_004)         *)
(*   SpecEndpoints  the sender's HTTP-style signaling store                *)
(*                  (src/unnamed/part_002)                                 *)
(*   SpecSenders    several senders listening on the discovery channel     *)
(*   SpecStored     the stored-record poll of the older receiver           *)
(*                  (src/unnamed/part_000)                                 *)
(* Each leaves the variables of the other engines unchanged.               *)
(***************************************************************************)
EXTENDS Integers, Sequences, FiniteSets, TLC

\* ------------------------------------------------------------------ bounds
\* Number of distinct sender devices a receiver can see or connect to.
NumDevices == 2
\* Number of connectToDevice attempts the receiver makes in one run.
MaxSessions == 3
\* Number of connectivity candidates delivered to the receiver in one run.
MaxCandidates == 2
\* Number of connection-answer messages delivered to the receiver in one run.
MaxAnswers == 2
\* Number of connectivity candidates the receiver's peer connections discover
\* in one run.
MaxLocalCandidates == 2
\* Number of connectManual calls that reach connectToDevice in one run.
MaxManual == 1
\* Broadcast variant: the clock (Date.now()) stops at MaxClock, and the
\* receiver connects at most MaxBcConnects times.
MaxClock == 3
MaxBcConnects == 2
\* Number of ice-candidate posts and of get-candidates reads the sender's
\* signaling endpoints serve in one run.
MaxPosts == 3
MaxReads == 3

\* Number of scanForDevices calls in one run.
MaxScans == 1
\* The clock stops at MaxTime (seconds).
MaxTime == 27
\* Number of things senders do during one run: announcements delivered to the
\* receiver, stored records written or removed.
MaxSenderEvents == 2
\* Ages (seconds) of the records senders stored before the receiver mounted.
InitialAges == {4, 5}
\* The receiver mounts at StartTime, late enough for those records to exist.
StartTime == 1 + CHOOSE a \in InitialAges : \A b \in InitialAges : b <= a

\* Number of distinct parentIds that send offers to the sender.
NumParents == 2
\* Number of handleParentConnection calls in one run.
MaxPcs == 2
\* Number of startMonitoring calls in one run.
MaxStarts == 1
\* Number of times the sender's 2 s announce interval fires in one run.
MaxTicks == 5
\* Number of announcements the sender publishes in one run.
MaxAnnouncements == 5
\* Number of senders listening on the discovery channel.
NumSenders == 2
\* Number of checkStoredDevices polls in one run.
MaxChecks == 2

\* ------------------------------------------------------- program constants
\* Durations of ParentMonitor.tsx, in seconds.
DiscoveryPeriod == 2
CleanupPeriod == 5
ScanDuration == 10
DeviceTTL == 15
StorageFreshness == 10

Devices == 1..NumDevices
ParentIds == 1..NumParents
PcIds == 1..MaxPcs
NoPc == 0
ScanIds == 1..MaxScans
SessionIds == 1..MaxSessions
SenderIds == 1..NumSenders
NoDevice == 0
NoSession == 0

\* ------------------------------------------------------------------ state
VARIABLES
    \* receiver, session negotiation
    connectedDevice,    \* useState connectedDevice: NoDevice (null), or k for the
                        \* device object that was passed to the k-th connectToDevice call
    isConnecting,       \* useState isConnecting
    peerConnectionRef,  \* useRef peerConnectionRef: NoSession (null) or the attempt whose pc it holds
    mounted,            \* the component is mounted (its UI can be used)
    nSessions,          \* connectToDevice calls made so far; attempt k is the k-th call
    sess                \* per attempt: the locals of that connectToDevice call

VARIABLES
    \* receiver, device scan
    discoveredDevices,  \* useState discoveredDevices: the device directory, an array
    isScanning,         \* useState isScanning
    now,                \* Date.now(), in seconds
    storage,            \* localStorage: per device the lastSeen of its stored record, 0 if none
    nScans,             \* scanForDevices calls made so far
    scans,              \* per call: the timers and channel that call created
    nSenderEvents       \* announcements delivered and storage operations so far

scanVars == <<discoveredDevices, isScanning, now, storage, nScans, scans, nSenderEvents>>

VARIABLES
    \* sender, per-receiver sessions
    isStreaming,        \* useState isStreaming
    streamRef,          \* useRef streamRef: a local media stream is bound
    listeners,          \* discovery channels with the sender's onmessage handler on them
    connectedParents,   \* useState connectedParents
    peerConnectionsRef, \* useRef peerConnectionsRef: Map parentId -> pc, NoPc if absent
    nPcs,               \* handleParentConnection calls made so far; pc k is the k-th call's
    spc,                \* per call: the RTCPeerConnection that call created
    answerKeys          \* localStorage: the parentIds p with a baby-answer-<p> key

VARIABLES
    \* sender, advertising
    loaded,               \* the sender's page has not been unloaded
    record,               \* localStorage holds the sender's zoya-baby-monitor-<id> record
    discoveryIntervalRef, \* useRef discoveryIntervalRef: a live 2 s interval
    announceClosure,      \* the isStreaming that interval's announceOnNetwork captured
    nTicks,               \* times the interval has fired
    announced             \* baby-monitor-network-announcement messages published

announceVars == <<loaded, record, discoveryIntervalRef, announceClosure, nTicks, announced>>

sendVars == <<isStreaming, streamRef, listeners, connectedParents, peerConnectionsRef,
              nPcs, spc, answerKeys, announceVars>>

VARIABLES
    \* sender, HTTP-style signaling endpoints (src/unnamed/part_002)
    candidates,         \* signalingData.candidates: Map parentId -> array of candidates
    nPosts,             \* handleICECandidate calls so far; the k-th call posts candidate k
    nReads,             \* getCandidates calls so far
    posted,             \* per parentId, every candidate posted for it, in arrival order
    drained,            \* per parentId, everything getCandidates has returned, in order
    lastCall            \* the latest endpoint call and, for a read, what it returned

httpVars == <<candidates, nPosts, nReads, posted, drained, lastCall>>

VARIABLES
    \* receiver, manual connection
    manualIp,           \* useState manualIp
    manualPort,         \* useState manualPort
    requested           \* per attempt: the device record connectManual built for it

manualVars == <<manualIp, manualPort, requested>>

VARIABLES
    \* the BroadcastChannels between receiver and sender
    delivered           \* posted messages the channel has handed to its subscribers

netVars == <<delivered>>

VARIABLES
    \* broadcast variant (ParentMonitor.tsx second component, part_004)
    bcNow,              \* Date.now()
    bcStep,             \* receiver: "idle", "requested" or "connected"
    bcParentId,         \* receiver: the parentId its connection-request carried, 0 if none
    bcWire,             \* messages posted on 'baby-monitor-discovery' for the sender, in order
    bcRegistry,         \* sender: keys of peerConnectionsRef (each holds an open pc)
    bcClosed,           \* sender: parentIds whose pc handleParentDisconnection closed
    bcConnectedParents, \* sender: useState connectedParents
    bcHandled,          \* the message the sender's onmessage handled last
    nBcConnects         \* connectToDevice calls so far

bcVars == <<bcNow, bcStep, bcParentId, bcWire, bcRegistry, bcClosed,
            bcConnectedParents, bcHandled, nBcConnects>>

VARIABLES
    \* several senders on 'zoya-network-discovery' (BabyMonitor.tsx)
    deviceDataId,       \* per sender: deviceData.id
    onmessageOf,        \* per sender: networkChannel.onmessage is installed
    peerConnectionsOf,  \* per sender: keys of peerConnectionsRef
    connectedParentsOf, \* per sender: useState connectedParents
    requestsPosted,     \* network-connection-request messages posted so far
    requestsSeen        \* per sender: the requests its channel has handed to it

sendersVars == <<deviceDataId, onmessageOf, peerConnectionsOf, connectedParentsOf,
                 requestsPosted, requestsSeen>>

VARIABLES
    \* older receiver, stored-record poll (src/unnamed/part_000)
    storedRecords,      \* localStorage: the baby-monitor-<id> keys in key order, each
                        \* with what its value is: "corrupt", "fresh" or "stale"
    availableDevices,   \* useState availableDevices: the ids of its entries, in order
    nChecks             \* checkStoredDevices polls so far

storedVars == <<storedRecords, availableDevices, nChecks>>

recvVars == <<connectedDevice, isConnecting, peerConnectionRef, mounted, nSessions, sess>>

otherThanRecv == <<scanVars, sendVars, httpVars, manualVars, netVars, bcVars, sendersVars, storedVars>>
otherThanScan == <<recvVars, sendVars, httpVars, manualVars, netVars, bcVars, sendersVars, storedVars>>
otherThanSend == <<recvVars, scanVars, httpVars, manualVars, netVars, bcVars, sendersVars, storedVars>>
otherThanHttp == <<recvVars, scanVars, sendVars, manualVars, netVars, bcVars, sendersVars, storedVars>>
otherThanManual == <<scanVars, sendVars, httpVars, netVars, bcVars, sendersVars, storedVars>>
otherThanNet == <<scanVars, httpVars, manualVars, bcVars, sendersVars, storedVars>>
otherThanBc == <<recvVars, scanVars, sendVars, httpVars, manualVars, netVars, sendersVars, storedVars>>

\* The locals of one connectToDevice call, before the call is made.
\*   step      where the async function is: "none" (not called), "pcCreated"
\*             (awaiting createOffer), "offerCreated" (awaiting
\*             setLocalDescription), "offerSent" (function body finished),
\*             "failed" (the catch block ran)
\*   closure   the value of connectedDevice the call's closure captured
\*   pc        the RTCPeerConnection: "none", "open", "closed"
\*   closes    number of close() calls made on the pc
\*   requests  number of network-connection-request messages posted
\*   channel   the call's BroadcastChannel is open with handleNetworkAnswer on it
\*   timer     the 15 s setTimeout: "none", "pending", "fired"
\*   handlers  onconnectionstatechange is installed
\*   remoteSet setRemoteDescription(answer) has succeeded
\*   answers   number of connection-answer messages handled
\*   transport the pc's connectionState as last reported
\*   received  candidates delivered to handleNetworkAnswer, in arrival order
\*   applied   candidates addIceCandidate accepted, in order
\*   badAdds   addIceCandidate calls made while the pc had no remote description
\*   gathered  local candidates the pc has handed to onicecandidate
\*   sent      the candidates posted as ice-candidate messages, in posting order
\*   txErrors  onicecandidate calls in which postMessage threw
IdleSession ==
    [step |-> "none", closure |-> NoDevice, pc |-> "none",
     closes |-> 0, requests |-> 0, channel |-> FALSE, timer |-> "none",
     handlers |-> FALSE, remoteSet |-> FALSE, answers |-> 0, transport |-> "new",
     received |-> <<>>, applied |-> <<>>, badAdds |-> 0,
     gathered |-> 0, sent |-> <<>>, txErrors |-> 0]

\* ------------------------------------------------ receiver: teardown helper
\* peerConnectionRef.current.close() of handleDisconnect, applied to ss.
CloseRef(ss) ==
    IF peerConnectionRef # NoSession
    THEN [ss EXCEPT ![peerConnectionRef].pc = "closed",
                    ![peerConnectionRef].closes = @ + 1]
    ELSE ss

\* handleDisconnect: close and drop the referenced pc, reset the visible state.
HandleDisconnect(ss) ==
    /\ sess' = CloseRef(ss)
    /\ peerConnectionRef' = NoSession
    /\ connectedDevice' = NoDevice
    /\ isConnecting' = FALSE

\* ------------------------------------------------ receiver: connectToDevice
\* The UI offers a connect control only in the not-connected view and only
\* while isConnecting is false (device card onClick, manual button disabled).
CanClickConnect ==
    /\ mounted
    /\ connectedDevice = NoDevice
    /\ ~isConnecting

\* The catch block of connectToDevice: only isConnecting is reset.
ConnectCatch(s, ss) ==
    /\ sess' = [ss EXCEPT ![s].step = "failed"]
    /\ isConnecting' = FALSE

\* The guard of connectToDevice: a call is rejected only when connectedDevice
\* is set.
ConnectAccepted == connectedDevice = NoDevice

\* connectToDevice up to its first await, for a call the guard lets through
\* (a rejected call returns without changing anything). new RTCPeerConnection
\* either succeeds (ok) or throws into the catch block.
ConnectToDeviceCall(ok) ==
    /\ ConnectAccepted
    /\ LET s == nSessions + 1 IN
       /\ nSessions' = s
       /\ IF ok
          THEN /\ sess' = [sess EXCEPT ![s].step = "pcCreated",
                                       ![s].closure = connectedDevice,
                                       ![s].pc = "open"]
               /\ isConnecting' = TRUE
               /\ peerConnectionRef' = s
          ELSE /\ sess' = [sess EXCEPT ![s].step = "failed",
                                       ![s].closure = connectedDevice]
               /\ isConnecting' = FALSE
               /\ UNCHANGED peerConnectionRef
    /\ UNCHANGED <<connectedDevice, mounted>>

\* Connect pressed on a listed device.
ConnectToDevice(ok) ==
    /\ CanClickConnect
    /\ nSessions < MaxSessions
    /\ ConnectToDeviceCall(ok)
    /\ UNCHANGED otherThanRecv

\* ---------------------------------------------- receiver: connectManual
\* What the user can have typed into the two inputs.
IpInputs == {"", "192.168.1.100"}
PortInputs == {"", "5000", "abc"}

\* parseInt(manualPort, 10)
ParseInt(str) ==
    CASE str = "5000" -> 5000
      [] OTHER -> "NaN"

NoRecord == [id |-> "none"]

\* The device object connectManual builds.
ManualDevice(ip, port) ==
    [id |-> <<"manual", ip, port>>,
     type |-> "baby-monitor",
     status |-> "active",
     timestamp |-> now,
     lastSeen |-> now,
     connectionMethod |-> "manual",
     networkAddress |-> ip,
     port |-> ParseInt(port)]

SetManualIp(v) ==
    /\ mounted
    /\ v # manualIp
    /\ manualIp' = v
    /\ UNCHANGED <<manualPort, requested, recvVars>>
    /\ UNCHANGED otherThanManual

SetManualPort(v) ==
    /\ mounted
    /\ v # manualPort
    /\ manualPort' = v
    /\ UNCHANGED <<manualIp, requested, recvVars>>
    /\ UNCHANGED otherThanManual

\* A connectManual that also lists the device it built.
ConnectManualListed(ok) ==
    /\ mounted
    /\ ~isConnecting
    /\ nSessions < MaxManual
    /\ IF manualIp = "" \/ manualPort = ""
       THEN UNCHANGED <<recvVars, requested, discoveredDevices>>
       ELSE /\ ConnectToDeviceCall(ok)
            /\ requested' = [requested EXCEPT
                                ![nSessions + 1] = ManualDevice(manualIp, manualPort)]
            /\ discoveredDevices' =
                  Append(discoveredDevices, ManualDevice(manualIp, manualPort))
    /\ UNCHANGED <<manualIp, manualPort>>
    /\ UNCHANGED <<isScanning, now, storage, nScans, scans, nSenderEvents>>
    /\ UNCHANGED <<sendVars, httpVars, netVars, bcVars, sendersVars, storedVars>>

\* Connect Manually pressed (the button is disabled while connecting). With
\* an empty address or port the handler returns; otherwise it builds the
\* device object and calls connectToDevice with it.
ConnectManual(ok) ==
    /\ mounted
    /\ ~isConnecting
    /\ nSessions < MaxManual
    /\ IF manualIp = "" \/ manualPort = ""
       THEN UNCHANGED <<recvVars, requested>>
       ELSE /\ ConnectToDeviceCall(ok)
            /\ requested' = [requested EXCEPT
                                ![nSessions + 1] = ManualDevice(manualIp, manualPort)]
    /\ UNCHANGED <<manualIp, manualPort>>
    /\ UNCHANGED otherThanManual

\* createOffer settles. On a closed pc it rejects; otherwise it may resolve or
\* reject. A rejection runs the catch block.
CreateOfferDone(s, ok) ==
    /\ sess[s].step = "pcCreated"
    /\ IF ok /\ sess[s].pc = "open"
       THEN /\ sess' = [sess EXCEPT ![s].step = "offerCreated"]
            /\ UNCHANGED isConnecting
       ELSE ConnectCatch(s, sess)
    /\ UNCHANGED <<connectedDevice, peerConnectionRef, mounted, nSessions>>
    /\ UNCHANGED otherThanRecv

\* setLocalDescription settles and the rest of connectToDevice runs without
\* another await: the request is posted, handleNetworkAnswer is installed, the
\* 15 s timer is started and onconnectionstatechange is installed.
\* outcome: "ok", "setLocalFails" or "transmitFails" (postMessage throws).
SetLocalDone(s, outcome) ==
    /\ sess[s].step = "offerCreated"
    /\ IF outcome = "ok" /\ sess[s].pc = "open"
       THEN /\ sess' = [sess EXCEPT ![s].step = "offerSent",
                                    ![s].requests = @ + 1,
                                    ![s].channel = TRUE,
                                    ![s].timer = "pending",
                                    ![s].handlers = TRUE]
            /\ UNCHANGED isConnecting
       ELSE ConnectCatch(s, sess)
    /\ UNCHANGED <<connectedDevice, peerConnectionRef, mounted, nSessions>>
    /\ UNCHANGED otherThanRecv

\* ------------------------------------------- receiver: handleNetworkAnswer
\* A message whose parentId is not this call's parentId is ignored, so only
\* matching messages are delivered here. The channel delivers while it is open.

\* Messages handled so far by all calls' handlers.
RECURSIVE SumOver(_, _)
SumOver(f, n) == IF n = 0 THEN 0 ELSE f[n] + SumOver(f, n - 1)

AnswersDelivered == SumOver([s \in SessionIds |-> sess[s].answers], MaxSessions)
CandidatesDelivered == SumOver([s \in SessionIds |-> Len(sess[s].received)], MaxSessions)

\* setRemoteDescription(answer) succeeds on an open pc that holds its local
\* offer and no remote description yet, when the answer is well formed.
SetRemoteSucceeds(s, wellFormed) ==
    /\ wellFormed
    /\ sess[s].pc = "open"
    /\ ~sess[s].remoteSet

\* type === 'connection-answer'
HandleAnswerCall(s, wellFormed) ==
    /\ sess[s].channel
    /\ IF SetRemoteSucceeds(s, wellFormed)
       THEN /\ sess' = [sess EXCEPT ![s].remoteSet = TRUE, ![s].answers = @ + 1]
            /\ connectedDevice' = s
            /\ isConnecting' = FALSE
       ELSE /\ sess' = [sess EXCEPT ![s].answers = @ + 1]
            /\ isConnecting' = FALSE
            /\ UNCHANGED connectedDevice
    /\ UNCHANGED <<peerConnectionRef, mounted, nSessions>>

\* A connection-answer for attempt s reaches its handler.
HandleAnswer(s, wellFormed) ==
    /\ AnswersDelivered < MaxAnswers
    /\ HandleAnswerCall(s, wellFormed)
    /\ UNCHANGED otherThanRecv

\* addIceCandidate(candidate) is accepted by an open pc with a remote
\* description; otherwise it rejects and the handler logs and swallows it.
AddIceCandidateSucceeds(s) ==
    /\ sess[s].pc = "open"
    /\ sess[s].remoteSet

\* A handler that gives the attempt up when addIceCandidate rejects.
HandleCandidateFatal(s) ==
    /\ sess[s].channel
    /\ CandidatesDelivered < MaxCandidates
    /\ LET c == Len(sess[s].received) + 1 IN
       sess' = [sess EXCEPT
                  ![s].received = Append(@, c),
                  ![s].applied = IF AddIceCandidateSucceeds(s) THEN Append(@, c) ELSE @,
                  ![s].badAdds = IF sess[s].remoteSet THEN @ ELSE @ + 1]
    /\ isConnecting' = IF AddIceCandidateSucceeds(s) THEN isConnecting ELSE FALSE
    /\ UNCHANGED <<connectedDevice, peerConnectionRef, mounted, nSessions>>
    /\ UNCHANGED otherThanRecv

\* type === 'ice-candidate-response': the candidate is applied at once.
HandleCandidate(s) ==
    /\ sess[s].channel
    /\ CandidatesDelivered < MaxCandidates
    /\ LET c == Len(sess[s].received) + 1 IN
       sess' = [sess EXCEPT
                  ![s].received = Append(@, c),
                  ![s].applied = IF AddIceCandidateSucceeds(s) THEN Append(@, c) ELSE @,
                  ![s].badAdds = IF sess[s].remoteSet THEN @ ELSE @ + 1]
    /\ UNCHANGED <<connectedDevice, isConnecting, peerConnectionRef, mounted, nSessions>>
    /\ UNCHANGED otherThanRecv

\* ---------------------------------------------- receiver: onicecandidate
LocalCandidates == SumOver([s \in SessionIds |-> sess[s].gathered], MaxSessions)

\* A handler that puts the newest candidate in front of the earlier ones.
LocalCandidateReordered(s, ok) ==
    /\ sess[s].step = "offerSent"
    /\ sess[s].pc = "open"
    /\ LocalCandidates < MaxLocalCandidates
    /\ LET c == sess[s].gathered + 1 IN
       sess' = [sess EXCEPT
                  ![s].gathered = c,
                  ![s].sent = IF ok /\ sess[s].channel THEN <<c>> \o @ ELSE @,
                  ![s].txErrors = IF ok /\ sess[s].channel THEN @ ELSE @ + 1]
    /\ UNCHANGED <<connectedDevice, isConnecting, peerConnectionRef, mounted, nSessions>>
    /\ UNCHANGED otherThanRecv

\* onicecandidate with a candidate, on an open pc once the handler is
\* installed: the candidate is posted at once as one ice-candidate message.
\* postMessage may throw (ok false, or the channel is closed); the handler has
\* no try/catch, so the exception leaves it and the candidate is not sent.
LocalCandidate(s, ok) ==
    /\ sess[s].step = "offerSent"
    /\ sess[s].pc = "open"
    /\ LocalCandidates < MaxLocalCandidates
    /\ LET c == sess[s].gathered + 1 IN
       sess' = [sess EXCEPT
                  ![s].gathered = c,
                  ![s].sent = IF ok /\ sess[s].channel THEN Append(@, c) ELSE @,
                  ![s].txErrors = IF ok /\ sess[s].channel THEN @ ELSE @ + 1]
    /\ UNCHANGED <<connectedDevice, isConnecting, peerConnectionRef, mounted, nSessions>>
    /\ UNCHANGED otherThanRecv

\* ------------------------------------------- receiver: connection timeout
\* The guard of the timeout callback reads the connectedDevice its closure
\* captured when connectToDevice was called.
TimeoutGuard(s) == sess[s].closure = NoDevice

\* Timers of equal delay fire in the order they were started.
TimerDue(s) ==
    /\ sess[s].timer = "pending"
    /\ \A r \in SessionIds : r < s => sess[r].timer # "pending"

ConnectionTimeout(s) ==
    /\ TimerDue(s)
    /\ IF TimeoutGuard(s)
       THEN /\ sess' = [sess EXCEPT ![s].timer = "fired",
                                    ![s].pc = "closed",
                                    ![s].closes = @ + 1,
                                    ![s].channel = FALSE]
            /\ isConnecting' = FALSE
       ELSE /\ sess' = [sess EXCEPT ![s].timer = "fired"]
            /\ UNCHANGED isConnecting
    /\ UNCHANGED <<connectedDevice, peerConnectionRef, mounted, nSessions>>
    /\ UNCHANGED otherThanRecv

\* ------------------------------------ receiver: onconnectionstatechange
\* The pc reports transport states only while it is open and negotiated.
TransportLive(s) ==
    /\ sess[s].handlers
    /\ sess[s].pc = "open"
    /\ sess[s].remoteSet

TransportConnected(s) ==
    /\ TransportLive(s)
    /\ sess[s].transport \in {"new", "disconnected"}
    /\ sess' = [sess EXCEPT ![s].transport = "connected"]
    /\ UNCHANGED <<connectedDevice, isConnecting, peerConnectionRef, mounted, nSessions>>
    /\ UNCHANGED otherThanRecv

\* 'disconnected' or 'failed': handleDisconnect()
TransportDown(s, k) ==
    /\ TransportLive(s)
    /\ sess[s].transport \notin {k, "failed"}
    /\ HandleDisconnect([sess EXCEPT ![s].transport = k])
    /\ UNCHANGED <<mounted, nSessions>>
    /\ UNCHANGED otherThanRecv

\* ------------------------------------------ receiver: disconnect, unmount
\* The Disconnect button exists only in the connected view.
Disconnect ==
    /\ mounted
    /\ connectedDevice # NoDevice
    /\ HandleDisconnect(sess)
    /\ UNCHANGED <<mounted, nSessions>>
    /\ UNCHANGED otherThanRecv

\* Effect cleanup on unmount: handleDisconnect(). Timers and channels of
\* earlier connectToDevice calls are not cancelled.
Unmount ==
    /\ mounted
    /\ mounted' = FALSE
    /\ HandleDisconnect(sess)
    /\ UNCHANGED nSessions
    /\ UNCHANGED otherThanRecv

RecvInit ==
    /\ connectedDevice = NoDevice
    /\ isConnecting = FALSE
    /\ peerConnectionRef = NoSession
    /\ mounted = TRUE
    /\ nSessions = 0
    /\ sess = [s \in SessionIds |-> IdleSession]

RecvNext ==
    \/ \E ok \in BOOLEAN : ConnectToDevice(ok)
    \/ \E s \in SessionIds, ok \in BOOLEAN : CreateOfferDone(s, ok)
    \/ \E s \in SessionIds, o \in {"ok", "setLocalFails", "transmitFails"} : SetLocalDone(s, o)
    \/ \E s \in SessionIds, ok \in BOOLEAN : HandleAnswer(s, ok)
    \/ \E s \in SessionIds : HandleCandidate(s)
    \/ \E s \in SessionIds : ConnectionTimeout(s)
    \/ \E s \in SessionIds : TransportConnected(s)
    \/ \E s \in SessionIds, k \in {"disconnected", "failed"} : TransportDown(s, k)
    \/ Disconnect
    \/ Unmount



\* ================================================================ device scan
\* The locals of one scanForDevices call.
\*   step           "none", "status" (awaiting Network.getStatus), "running"
\*                  (channel subscribed, both intervals and the timeout set),
\*                  "ended" (the 10 s timeout ran), "aborted" (no network)
\*   nextDiscovery  when the 2 s interval fires next
\*   nextCleanup    when the 5 s interval fires next
\*   stopAt         when the 10 s timeout fires
IdleScan == [step |-> "none", nextDiscovery |-> 0, nextCleanup |-> 0, stopAt |-> 0]

\* A directory entry built by handleNetworkAnnouncement.
BroadcastEntry(d, ts) ==
    [id |-> d, timestamp |-> ts, lastSeen |-> now, connectionMethod |-> "broadcast"]

\* A directory entry built by scanStorageDevices from a stored record.
StoredEntry(d) ==
    [id |-> d, timestamp |-> storage[d], lastSeen |-> storage[d],
     connectionMethod |-> "network"]

\* prevDevices.findIndex(d => d.id === device.id): first index, 0 if none.
FindIndex(devs, d) ==
    IF \E i \in 1..Len(devs) : devs[i].id = d
    THEN CHOOSE i \in 1..Len(devs) :
            /\ devs[i].id = d
            /\ \A j \in 1..(i - 1) : devs[j].id # d
    ELSE 0

\* The updater of handleNetworkAnnouncement: replace in place or append.
Upsert(devs, e) ==
    LET i == FindIndex(devs, e.id) IN
    IF i > 0 THEN [devs EXCEPT ![i] = e] ELSE Append(devs, e)

\* The stored records scanStorageDevices accepts, in key order.
RECURSIVE FoundDevices(_)
FoundDevices(n) ==
    IF n = 0 THEN <<>>
    ELSE LET rest == FoundDevices(n - 1) IN
         IF storage[n] # 0 /\ now - storage[n] < StorageFreshness
         THEN Append(rest, StoredEntry(n))
         ELSE rest

\* scanStorageDevices: the directory is replaced when any record was found.
ScanStorageDevices(devs) ==
    LET found == FoundDevices(NumDevices) IN
    IF Len(found) > 0 THEN found ELSE devs

\* A filter that keeps an entry up to and including the age of the TTL.
KeepDeviceInclusive(e) == e.lastSeen # 0 /\ now - e.lastSeen <= DeviceTTL

\* The filter of the cleanup interval.
KeepDevice(e) == e.lastSeen # 0 /\ now - e.lastSeen < DeviceTTL

CleanupDevices(devs) == SelectSeq(devs, KeepDevice)

\* scanForDevices up to its await. The Start Scanning button is rendered
\* while isScanning is false; the mount effect calls it once at the start.
ScanForDevices ==
    /\ ~isScanning
    /\ nScans < MaxScans
    /\ nScans' = nScans + 1
    /\ isScanning' = TRUE
    /\ scans' = [scans EXCEPT ![nScans + 1].step = "status"]
    /\ UNCHANGED <<discoveredDevices, now, storage, nSenderEvents>>
    /\ UNCHANGED otherThanScan

\* Network.getStatus settles and the rest of scanForDevices runs: without a
\* network (or on an error) scanning is switched off; otherwise the directory
\* is cleared, the channel subscribed, storage scanned, the timers started.
ScanSetup(s, connected) ==
    /\ scans[s].step = "status"
    /\ IF connected
       THEN /\ discoveredDevices' = ScanStorageDevices(<<>>)
            /\ scans' = [scans EXCEPT ![s] = [step |-> "running",
                                              nextDiscovery |-> now + DiscoveryPeriod,
                                              nextCleanup |-> now + CleanupPeriod,
                                              stopAt |-> now + ScanDuration]]
            /\ UNCHANGED isScanning
       ELSE /\ isScanning' = FALSE
            /\ scans' = [scans EXCEPT ![s].step = "aborted"]
            /\ UNCHANGED discoveredDevices
    /\ UNCHANGED <<now, storage, nScans, nSenderEvents>>
    /\ UNCHANGED otherThanScan

\* stopScanning: the Stop Scan button is rendered while isScanning is true.
StopScanning ==
    /\ isScanning
    /\ isScanning' = FALSE
    /\ discoveredDevices' = <<>>
    /\ UNCHANGED <<now, storage, nScans, scans, nSenderEvents>>
    /\ UNCHANGED otherThanScan

\* handleNetworkAnnouncement on the channel of call s, for an announcement of
\* device d whose own timestamp is ts.
HandleNetworkAnnouncement(s, d, ts) ==
    /\ scans[s].step = "running"
    /\ nSenderEvents < MaxSenderEvents
    /\ nSenderEvents' = nSenderEvents + 1
    /\ discoveredDevices' = Upsert(discoveredDevices, BroadcastEntry(d, ts))
    /\ UNCHANGED <<isScanning, now, storage, nScans, scans>>
    /\ UNCHANGED otherThanScan

\* The 2 s interval: a discovery request is posted and storage rescanned.
DiscoveryTick(s) ==
    /\ scans[s].step = "running"
    /\ scans[s].nextDiscovery <= now
    /\ discoveredDevices' = ScanStorageDevices(discoveredDevices)
    /\ scans' = [scans EXCEPT ![s].nextDiscovery = @ + DiscoveryPeriod]
    /\ UNCHANGED <<isScanning, now, storage, nScans, nSenderEvents>>
    /\ UNCHANGED otherThanScan

\* The 5 s interval: entries not seen for 15 s are dropped.
CleanupTick(s) ==
    /\ scans[s].step = "running"
    /\ scans[s].nextCleanup <= now
    /\ discoveredDevices' = CleanupDevices(discoveredDevices)
    /\ scans' = [scans EXCEPT ![s].nextCleanup = @ + CleanupPeriod]
    /\ UNCHANGED <<isScanning, now, storage, nScans, nSenderEvents>>
    /\ UNCHANGED otherThanScan

\* A timeout that also clears the directory, as stopScanning does.
ScanTimeoutClears(s) ==
    /\ scans[s].step = "running"
    /\ scans[s].stopAt <= now
    /\ isScanning' = FALSE
    /\ discoveredDevices' = <<>>
    /\ scans' = [scans EXCEPT ![s].step = "ended"]
    /\ UNCHANGED <<now, storage, nScans, nSenderEvents>>
    /\ UNCHANGED otherThanScan

\* The 10 s timeout: scanning off, both intervals cleared, channel closed.
ScanTimeout(s) ==
    /\ scans[s].step = "running"
    /\ scans[s].stopAt <= now
    /\ isScanning' = FALSE
    /\ scans' = [scans EXCEPT ![s].step = "ended"]
    /\ UNCHANGED <<discoveredDevices, now, storage, nScans, nSenderEvents>>
    /\ UNCHANGED otherThanScan

\* A timer of a running scan is due.
TimerPending(s) ==
    /\ scans[s].step = "running"
    /\ \/ scans[s].nextDiscovery <= now
       \/ scans[s].nextCleanup <= now
       \/ scans[s].stopAt <= now

\* One second passes. Due timers run first; the mount effect has called
\* scanForDevices, and Network.getStatus (a local call) has settled. Once no
\* scan runs, none can be started and the directory is empty, nothing
\* depends on the clock any more.
Tick ==
    /\ now < MaxTime
    /\ nScans > 0
    /\ \/ nScans < MaxScans
       \/ \E s \in ScanIds : scans[s].step = "running"
       \/ discoveredDevices # <<>>
    /\ \A s \in ScanIds : ~TimerPending(s) /\ scans[s].step # "status"
    /\ now' = now + 1
    /\ UNCHANGED <<discoveredDevices, isScanning, storage, nScans, scans, nSenderEvents>>
    /\ UNCHANGED otherThanScan

\* A sender writes its record (localStorage.setItem with lastSeen: Date.now()).
StorageWrite(d) ==
    /\ nSenderEvents < MaxSenderEvents
    /\ nSenderEvents' = nSenderEvents + 1
    /\ storage' = [storage EXCEPT ![d] = now]
    /\ UNCHANGED <<discoveredDevices, isScanning, now, nScans, scans>>
    /\ UNCHANGED otherThanScan

\* A sender removes its record (localStorage.removeItem).
StorageRemove(d) ==
    /\ storage[d] # 0
    /\ nSenderEvents < MaxSenderEvents
    /\ nSenderEvents' = nSenderEvents + 1
    /\ storage' = [storage EXCEPT ![d] = 0]
    /\ UNCHANGED <<discoveredDevices, isScanning, now, nScans, scans>>
    /\ UNCHANGED otherThanScan

ScanInit ==
    /\ discoveredDevices = <<>>
    /\ isScanning = FALSE
    /\ now = StartTime
    /\ storage \in [Devices -> {0} \cup {StartTime - a : a \in InitialAges}]
    /\ nScans = 0
    /\ scans = [s \in ScanIds |-> IdleScan]
    /\ nSenderEvents = 0

\* Ages, in seconds, a stored record can have when the second cleanup tick of
\* a scan runs, 10 s after the scan started: a record is accepted while it is
\* younger than 10 s.
ExpireAges == 0..(ScanDuration + StorageFreshness - 1)

\* The storage polls of a scan run at these offsets from its start.
PollOffsets == {k * DiscoveryPeriod : k \in 0..(ScanDuration \div DiscoveryPeriod)}

\* The record of d was accepted by the poll at offset off of the scan that
\* started ScanDuration ago.
FreshAtPoll(d, off) ==
    /\ storage[d] # 0
    /\ LET age == (now - storage[d]) - (ScanDuration - off)
       IN  age >= 0 /\ age < StorageFreshness

\* The devices of the last poll that found any record: scanStorageDevices
\* replaced the directory by them, later polls left it alone.
LastFound ==
    LET hits == {off \in PollOffsets : \E d \in Devices : FreshAtPoll(d, off)} IN
    IF hits = {} THEN {}
    ELSE LET last == CHOOSE o \in hits : \A q \in hits : q <= o
         IN  {d \in Devices : FreshAtPoll(d, last)}

\* The orders in which the devices of S can stand in the directory
\* (localStorage.key(i) enumerates in an implementation-defined order).
Orders(S) ==
    {sq \in [1..Cardinality(S) -> S] :
        \A i, j \in 1..Cardinality(S) : sq[i] = sq[j] => i = j}

\* The inputs of the cleanup filter: a scan started ScanDuration ago, its
\* polls have run, its second cleanup tick is due, and the directory holds
\* what the polls left of the stored records, of any age.
LastSecondOfScanWith(events, ages) ==
    /\ now = DeviceTTL + CleanupPeriod
    /\ storage \in [Devices -> {0} \cup {now - a : a \in ages}]
    /\ \E order \in Orders(LastFound) :
          discoveredDevices = [i \in DOMAIN order |-> StoredEntry(order[i])]
    /\ isScanning = TRUE
    /\ nScans = 1
    /\ scans = [s \in ScanIds |->
                  IF s = 1
                  THEN [step |-> "running",
                        nextDiscovery |-> now + DiscoveryPeriod,
                        nextCleanup |-> now,
                        stopAt |-> now]
                  ELSE IdleScan]
    /\ nSenderEvents = events

LastSecondOfScan(events) == LastSecondOfScanWith(events, ExpireAges)

\* The inputs of the cleanup filter.
ExpireInit == LastSecondOfScan(0)

\* The same moment when every stored record is absent or one second old.
ManualScanInit == LastSecondOfScanWith(0, {1})

\* The same moment, with one sender event still to come.
ScanEndInit == LastSecondOfScan(MaxSenderEvents - 1)

ExpireNext == \E s \in ScanIds : CleanupTick(s)

\* Ages of the timestamp an announcement carries when it is delivered: the
\* sender stamps it when it starts advertising, so it is either fresh or
\* older than the freshness window.
AnnouncementAges == {0, StorageFreshness + 1}

\* The last second of a scan: its cleanup tick and its timeout are due,
\* announcements may still arrive, and Stop Scan may be pressed.
ScanEndNext ==
    \/ \E s \in ScanIds : CleanupTick(s)
    \/ \E s \in ScanIds : ScanTimeout(s)
    \/ \E s \in ScanIds, d \in Devices, a \in AnnouncementAges :
          HandleNetworkAnnouncement(s, d, now - a)
    \/ StopScanning

NoStoredRecords == \A d \in Devices : storage[d] = 0

ScanNext ==
    \/ ScanForDevices
    \/ \E s \in ScanIds, c \in BOOLEAN : ScanSetup(s, c)
    \/ StopScanning
    \/ \E s \in ScanIds, d \in Devices, a \in AnnouncementAges :
          HandleNetworkAnnouncement(s, d, now - a)
    \/ \E s \in ScanIds : DiscoveryTick(s)
    \/ \E s \in ScanIds : CleanupTick(s)
    \/ \E s \in ScanIds : ScanTimeout(s)
    \/ Tick
    \/ \E d \in Devices : StorageWrite(d)
    \/ \E d \in Devices : StorageRemove(d)


\* ==================================================================== sender
\* The RTCPeerConnection of one handleParentConnection call.
\*   step      "none" (not called), "negotiating" (awaiting setRemoteDescription,
\*             createAnswer, setLocalDescription), "answered" (answer posted, pc
\*             registered, state handler installed), "failed" (catch block ran)
\*   parent    the parentId of the offer
\*   state     "none", "open", "closed"
\*   closes    number of close() calls made on the pc
\*   transport the pc's connectionState as last reported
IdlePc == [step |-> "none", parent |-> 0, state |-> "none", closes |-> 0,
           transport |-> "new"]

\* announceOnNetwork, given the isStreaming its closure captured and the
\* number of announcements published so far: it returns at once unless the
\* captured isStreaming is true.
AnnounceOnNetwork(captured, n) == IF ~captured THEN n ELSE n + 1

\* startMonitoring: the stream is bound, isStreaming set, and
\* setupNetworkBroadcasting subscribes a handler to the discovery channel
\* unless the device has no network.
StartMonitoring(connected) ==
    /\ loaded
    /\ ~isStreaming
    /\ listeners < MaxStarts
    /\ isStreaming' = TRUE
    /\ streamRef' = TRUE
    /\ listeners' = IF connected THEN listeners + 1 ELSE listeners
    /\ IF connected
       THEN /\ record' = TRUE
            /\ announced' = AnnounceOnNetwork(isStreaming, announced)
            /\ discoveryIntervalRef' = TRUE
            /\ announceClosure' = isStreaming
       ELSE UNCHANGED <<record, announced, discoveryIntervalRef, announceClosure>>
    /\ UNCHANGED <<loaded, nTicks>>
    /\ UNCHANGED <<connectedParents, peerConnectionsRef, nPcs, answerKeys, spc>>
    /\ UNCHANGED otherThanSend

\* peerConnectionsRef.current.forEach(pc => pc.close()) of
\* cleanupNetworkBroadcasting.
CloseRegistered(pcs) ==
    [x \in PcIds |->
        IF \E p \in ParentIds : peerConnectionsRef[p] = x
        THEN [pcs[x] EXCEPT !.state = "closed", !.closes = @ + 1]
        ELSE pcs[x]]

\* stopMonitoring: the stream is released, cleanupNetworkBroadcasting closes
\* and clears the registry, the count is reset. The channel handler stays.
StopMonitoring ==
    /\ loaded
    /\ isStreaming
    /\ discoveryIntervalRef' = FALSE
    /\ UNCHANGED <<loaded, record, announceClosure, nTicks, announced>>
    /\ isStreaming' = FALSE
    /\ streamRef' = FALSE
    /\ spc' = CloseRegistered(spc)
    /\ peerConnectionsRef' = [p \in ParentIds |-> NoPc]
    /\ connectedParents' = 0
    /\ UNCHANGED <<listeners, nPcs, answerKeys>>
    /\ UNCHANGED otherThanSend

\* A network-connection-request for this device reaches a handler:
\* handleParentConnection creates a pc and starts answering.
HandleParentConnectionCall(p) ==
    /\ listeners > 0
    /\ nPcs < MaxPcs
    /\ nPcs' = nPcs + 1
    /\ spc' = [spc EXCEPT ![nPcs + 1] = [IdlePc EXCEPT !.step = "negotiating",
                                                        !.parent = p,
                                                        !.state = "open"]]
    /\ UNCHANGED <<isStreaming, streamRef, listeners, connectedParents, peerConnectionsRef,
                   answerKeys>>
    /\ UNCHANGED announceVars

HandleParentConnection(p) ==
    /\ HandleParentConnectionCall(p)
    /\ UNCHANGED otherThanSend

\* A handler whose catch block lowers the count.
AnswerReadyLowers(x, ok) ==
    /\ spc[x].step = "negotiating"
    /\ IF ok
       THEN /\ spc' = [spc EXCEPT ![x].step = "answered"]
            /\ answerKeys' = answerKeys \cup {spc[x].parent}
            /\ peerConnectionsRef' = [peerConnectionsRef EXCEPT ![spc[x].parent] = x]
            /\ connectedParents' = connectedParents + 1
       ELSE /\ spc' = [spc EXCEPT ![x].step = "failed"]
            /\ connectedParents' = IF connectedParents > 0
                                   THEN connectedParents - 1 ELSE 0
            /\ UNCHANGED <<peerConnectionsRef, answerKeys>>
    /\ UNCHANGED <<isStreaming, streamRef, listeners, nPcs>>
    /\ UNCHANGED announceVars
    /\ UNCHANGED otherThanSend

\* The awaits of handleParentConnection settle. On success the answer is
\* posted, the pc registered under parentId, the count raised and the state
\* handler installed; on an error the catch block only logs.
AnswerReady(x, ok) ==
    /\ spc[x].step = "negotiating"
    /\ IF ok
       THEN /\ spc' = [spc EXCEPT ![x].step = "answered"]
            /\ answerKeys' = answerKeys \cup {spc[x].parent}
            /\ peerConnectionsRef' = [peerConnectionsRef EXCEPT ![spc[x].parent] = x]
            /\ connectedParents' = connectedParents + 1
       ELSE /\ spc' = [spc EXCEPT ![x].step = "failed"]
            /\ UNCHANGED <<peerConnectionsRef, connectedParents, answerKeys>>
    /\ UNCHANGED <<isStreaming, streamRef, listeners, nPcs>>
    /\ UNCHANGED announceVars
    /\ UNCHANGED otherThanSend

\* Math.max(0, prev - 1)
DecrementParents(n) == IF n - 1 > 0 THEN n - 1 ELSE 0

\* A teardown that closes and unregisters every receiver's peer connection.
HandleParentDisconnectionAll(parentId, pcs) ==
    LET x == peerConnectionsRef[parentId] IN
    IF x # NoPc
    THEN /\ spc' = [y \in PcIds |->
                      IF \E p \in ParentIds : peerConnectionsRef[p] = y
                      THEN [pcs[y] EXCEPT !.state = "closed", !.closes = @ + 1]
                      ELSE pcs[y]]
         /\ peerConnectionsRef' = [p \in ParentIds |-> NoPc]
         /\ connectedParents' = DecrementParents(connectedParents)
    ELSE /\ spc' = pcs
         /\ UNCHANGED <<peerConnectionsRef, connectedParents>>

\* handleParentDisconnection(parentId), applied to pcs: the registered pc of
\* that parent, if any, is closed and deleted and the count lowered.
HandleParentDisconnection(parentId, pcs) ==
    LET x == peerConnectionsRef[parentId] IN
    IF x # NoPc
    THEN /\ spc' = [pcs EXCEPT ![x].state = "closed", ![x].closes = @ + 1]
         /\ peerConnectionsRef' = [peerConnectionsRef EXCEPT ![parentId] = NoPc]
         /\ connectedParents' = DecrementParents(connectedParents)
    ELSE /\ spc' = pcs
         /\ UNCHANGED <<peerConnectionsRef, connectedParents>>

\* The pc reports transport states once its handler is installed and while
\* it is open.
SenderTransportLive(x) ==
    /\ spc[x].step = "answered"
    /\ spc[x].state = "open"

\* connectionState 'connected': logged only.
SenderTransportConnected(x) ==
    /\ SenderTransportLive(x)
    /\ spc[x].transport \in {"new", "disconnected"}
    /\ spc' = [spc EXCEPT ![x].transport = "connected"]
    /\ UNCHANGED <<isStreaming, streamRef, listeners, connectedParents,
                   peerConnectionsRef, nPcs, answerKeys>>
    /\ UNCHANGED announceVars
    /\ UNCHANGED otherThanSend

\* A state handler whose teardown lowers the count without looking the
\* receiver up in the registry.
SenderTransportDownUnguarded(x, k) ==
    /\ SenderTransportLive(x)
    /\ spc[x].transport \notin {k, "failed"}
    /\ LET y == peerConnectionsRef[spc[x].parent]
           pcs == [spc EXCEPT ![x].transport = k] IN
       /\ spc' = IF y # NoPc
                 THEN [pcs EXCEPT ![y].state = "closed", ![y].closes = @ + 1]
                 ELSE pcs
       /\ peerConnectionsRef' = [peerConnectionsRef EXCEPT ![spc[x].parent] = NoPc]
       /\ connectedParents' = DecrementParents(connectedParents)
    /\ UNCHANGED <<isStreaming, streamRef, listeners, nPcs, answerKeys>>
    /\ UNCHANGED announceVars
    /\ UNCHANGED otherThanSend

\* connectionState 'disconnected' or 'failed': handleParentDisconnection.
SenderTransportDown(x, k) ==
    /\ SenderTransportLive(x)
    /\ spc[x].transport \notin {k, "failed"}
    /\ HandleParentDisconnection(spc[x].parent, [spc EXCEPT ![x].transport = k])
    /\ UNCHANGED <<isStreaming, streamRef, listeners, nPcs, answerKeys>>
    /\ UNCHANGED announceVars
    /\ UNCHANGED otherThanSend

\* The 2 s interval fires: announceOnNetwork runs with the isStreaming its
\* closure captured.
AnnounceTick ==
    /\ discoveryIntervalRef
    /\ nTicks < MaxTicks
    /\ nTicks' = nTicks + 1
    /\ announced' = AnnounceOnNetwork(announceClosure, announced)
    /\ UNCHANGED <<loaded, record, discoveryIntervalRef, announceClosure>>
    /\ UNCHANGED <<isStreaming, streamRef, listeners, connectedParents,
                   peerConnectionsRef, nPcs, answerKeys, spc>>
    /\ UNCHANGED otherThanSend

\* A parent-discovery-request reaches a channel handler, which replies with
\* one announcement (after 100 ms).
DiscoveryRequest ==
    /\ listeners > 0
    /\ announced < MaxAnnouncements
    /\ announced' = announced + 1
    /\ UNCHANGED <<loaded, record, discoveryIntervalRef, announceClosure, nTicks>>
    /\ UNCHANGED <<isStreaming, streamRef, listeners, connectedParents,
                   peerConnectionsRef, nPcs, answerKeys, spc>>
    /\ UNCHANGED otherThanSend

\* beforeunload: the cleanup closures registered by setupNetworkBroadcasting
\* clear the interval, remove the stored record and close their channels.
BeforeUnload ==
    /\ loaded
    /\ loaded' = FALSE
    /\ IF listeners > 0
       THEN /\ record' = FALSE
            /\ discoveryIntervalRef' = FALSE
            /\ listeners' = 0
       ELSE UNCHANGED <<record, discoveryIntervalRef, listeners>>
    /\ UNCHANGED <<announceClosure, nTicks, announced>>
    /\ UNCHANGED <<isStreaming, streamRef, connectedParents, peerConnectionsRef, nPcs, answerKeys, spc>>
    /\ UNCHANGED otherThanSend

SendInit ==
    /\ isStreaming = FALSE
    /\ loaded = TRUE
    /\ record = FALSE
    /\ discoveryIntervalRef = FALSE
    /\ announceClosure = FALSE
    /\ nTicks = 0
    /\ announced = 0
    /\ streamRef = FALSE
    /\ listeners = 0
    /\ connectedParents = 0
    /\ peerConnectionsRef = [p \in ParentIds |-> NoPc]
    /\ nPcs = 0
    /\ spc = [x \in PcIds |-> IdlePc]
    /\ answerKeys = {}

SendNext ==
    \/ \E c \in BOOLEAN : StartMonitoring(c)
    \/ StopMonitoring
    \/ \E p \in ParentIds : HandleParentConnection(p)
    \/ \E x \in PcIds, ok \in BOOLEAN : AnswerReady(x, ok)
    \/ \E x \in PcIds : SenderTransportConnected(x)
    \/ \E x \in PcIds, k \in {"disconnected", "failed"} : SenderTransportDown(x, k)

\* The sender's advertising: start, stop, the announce interval, discovery
\* requests and page unload.
AnnounceNext ==
    \/ \E c \in BOOLEAN : StartMonitoring(c)
    \/ StopMonitoring
    \/ AnnounceTick
    \/ DiscoveryRequest
    \/ BeforeUnload

\* ============================================================ specifications
\* ------------------------------------ sender: HTTP-style signaling endpoints
\* Map.get(k) || []
GetOrEmpty(m, k) == IF k \in DOMAIN m THEN m[k] ELSE <<>>

\* Map.set(k, v)
MapSet(m, k, v) == [x \in DOMAIN m \cup {k} |-> IF x = k THEN v ELSE m[x]]

NoCall == [op |-> "none", parentId |-> 0, result |-> <<>>]

\* handleICECandidate: creates the list if the id has none, then pushes.
HandleICECandidate(parentId) ==
    /\ nPosts < MaxPosts
    /\ LET c == nPosts + 1
           withList == IF parentId \in DOMAIN candidates
                       THEN candidates
                       ELSE MapSet(candidates, parentId, <<>>)
       IN /\ nPosts' = c
          /\ candidates' = [withList EXCEPT ![parentId] = Append(@, c)]
          /\ posted' = [posted EXCEPT ![parentId] = Append(@, c)]
    /\ lastCall' = [op |-> "post", parentId |-> parentId, result |-> <<>>]
    /\ UNCHANGED <<nReads, drained>>
    /\ UNCHANGED otherThanHttp

\* A getCandidates that returns the list and leaves it stored.
GetCandidatesKeeps(parentId) ==
    /\ nReads < MaxReads
    /\ nReads' = nReads + 1
    /\ LET list == GetOrEmpty(candidates, parentId) IN
       /\ candidates' = MapSet(candidates, parentId, list)
       /\ drained' = [drained EXCEPT ![parentId] = @ \o list]
       /\ lastCall' = [op |-> "get", parentId |-> parentId, result |-> list]
    /\ UNCHANGED <<nPosts, posted>>
    /\ UNCHANGED otherThanHttp

\* getCandidates: returns the stored list (or an empty one) and stores a new
\* empty list under the id.
GetCandidates(parentId) ==
    /\ nReads < MaxReads
    /\ nReads' = nReads + 1
    /\ LET list == GetOrEmpty(candidates, parentId) IN
       /\ candidates' = MapSet(candidates, parentId, <<>>)
       /\ drained' = [drained EXCEPT ![parentId] = @ \o list]
       /\ lastCall' = [op |-> "get", parentId |-> parentId, result |-> list]
    /\ UNCHANGED <<nPosts, posted>>
    /\ UNCHANGED otherThanHttp

\* setupHTTPSignalingServer has run: signalingData holds three empty Maps.
HttpInit ==
    /\ candidates = <<>>
    /\ nPosts = 0
    /\ nReads = 0
    /\ posted = [p \in ParentIds |-> <<>>]
    /\ drained = [p \in ParentIds |-> <<>>]
    /\ lastCall = NoCall

HttpNext ==
    \/ \E p \in ParentIds : HandleICECandidate(p)
    \/ \E p \in ParentIds : GetCandidates(p)

\* ------------------------------------------- the channels in between
\* The receiver posts its request and listens for the answer on this channel;
\* the sender listens for requests on it.
RequestChannel == "zoya-network-discovery"

\* The sender posts its answer on this channel.
AnswerChannel == "zoya-baby-monitor"

\* Every message posted so far: the request of each attempt that got as far
\* as posting it, and the answer of each handleParentConnection call that got
\* as far as posting it. parentId is the attempt's number.
Posted ==
    {[channel |-> RequestChannel, type |-> "network-connection-request", parentId |-> s] :
        s \in {r \in SessionIds : sess[r].requests > 0}}
    \cup
    {[channel |-> AnswerChannel, type |-> "connection-answer", parentId |-> spc[x].parent] :
        x \in {y \in PcIds : spc[y].step = "answered"}}

\* Every message the two components can post in a run.
Messages ==
    {[channel |-> RequestChannel, type |-> "network-connection-request", parentId |-> s] :
        s \in SessionIds}
    \cup
    {[channel |-> AnswerChannel, type |-> "connection-answer", parentId |-> p] :
        p \in ParentIds}

\* The channel hands a posted message to the handlers subscribed under its
\* name: the sender's onmessage takes requests from the discovery channel,
\* an attempt's handleNetworkAnswer takes the answer carrying its parentId
\* from the discovery channel. A message on a name nobody subscribed to is
\* handed to nobody.
Dispatch(m) ==
    /\ m \in Posted \ delivered
    /\ delivered' = delivered \cup {m}
    /\ IF m.channel = RequestChannel /\ m.type = "network-connection-request"
          /\ listeners > 0
       THEN /\ HandleParentConnectionCall(m.parentId)
            /\ UNCHANGED recvVars
       ELSE IF m.channel = RequestChannel /\ m.type = "connection-answer"
               /\ sess[m.parentId].channel
       THEN /\ HandleAnswerCall(m.parentId, TRUE)
            /\ UNCHANGED sendVars
       ELSE UNCHANGED <<recvVars, sendVars>>
    /\ UNCHANGED otherThanNet

\* Attempts whose parentId the sender model can register.
FirstAttempts(ok) == nSessions < NumParents /\ ConnectToDevice(ok)

NetInit == delivered = {}

\* One receiver and one sender that is started once, within the 15 s of an
\* attempt's timer: attempts are made, each posts its request, the channels
\* dispatch, the sender's negotiation succeeds and it answers, while its
\* 2 s interval keeps firing.
HandshakeNext ==
    \/ \E c \in BOOLEAN : StartMonitoring(c)
    \/ \E ok \in BOOLEAN : FirstAttempts(ok)
    \/ \E s \in SessionIds, ok \in BOOLEAN : CreateOfferDone(s, ok)
    \/ \E s \in SessionIds, o \in {"ok", "setLocalFails", "transmitFails"} : SetLocalDone(s, o)
    \/ \E m \in Messages : Dispatch(m)
    \/ \E x \in PcIds : AnswerReady(x, TRUE)
    \/ AnnounceTick

\* ------------------------------------------------- several senders
otherThanSenders == <<recvVars, scanVars, sendVars, httpVars, manualVars, netVars, bcVars, storedVars>>

\* Device.getId() identifies the device: no two senders share an id.
DeviceIdAssignments ==
    {f \in [SenderIds -> Devices] : \A a, b \in SenderIds : a # b => f[a] # f[b]}

\* setupNetworkBroadcasting of sender b: it returns early when the network is
\* down, otherwise it subscribes its handler to the discovery channel.
SetupNetworkBroadcasting(b, connected) ==
    /\ ~onmessageOf[b]
    /\ connected
    /\ onmessageOf' = [onmessageOf EXCEPT ![b] = TRUE]
    /\ UNCHANGED <<deviceDataId, peerConnectionsOf, connectedParentsOf,
                   requestsPosted, requestsSeen>>
    /\ UNCHANGED otherThanSenders

\* A receiver's connectToDevice posts a network-connection-request with a
\* fresh parentId p (parent-<Date.now()>, later calls carry later ids) and
\* the id d of the directory entry it was given.
PostConnectionRequest(p, d) ==
    /\ p = Cardinality(requestsPosted) + 1
    /\ requestsPosted' = requestsPosted \cup {[parentId |-> p, deviceId |-> d]}
    /\ UNCHANGED <<deviceDataId, onmessageOf, peerConnectionsOf, connectedParentsOf,
                   requestsSeen>>
    /\ UNCHANGED otherThanSenders

\* A handler that answers every connection request it is handed.
OnMessageAnyTarget(b, m, ok) ==
    /\ onmessageOf[b]
    /\ m \in requestsPosted \ requestsSeen[b]
    /\ requestsSeen' = [requestsSeen EXCEPT ![b] = @ \cup {m}]
    /\ IF ok
       THEN /\ peerConnectionsOf' = [peerConnectionsOf EXCEPT ![b] = @ \cup {m.parentId}]
            /\ connectedParentsOf' = [connectedParentsOf EXCEPT ![b] = @ + 1]
       ELSE UNCHANGED <<peerConnectionsOf, connectedParentsOf>>
    /\ UNCHANGED <<deviceDataId, onmessageOf, requestsPosted>>
    /\ UNCHANGED otherThanSenders

\* networkChannel.onmessage of sender b is handed request m: when the target
\* is its own id, handleParentConnection runs, and registers the session and
\* raises the count unless the negotiation throws.
OnMessage(b, m, ok) ==
    /\ onmessageOf[b]
    /\ m \in requestsPosted \ requestsSeen[b]
    /\ requestsSeen' = [requestsSeen EXCEPT ![b] = @ \cup {m}]
    /\ IF m.deviceId = deviceDataId[b] /\ ok
       THEN /\ peerConnectionsOf' = [peerConnectionsOf EXCEPT ![b] = @ \cup {m.parentId}]
            /\ connectedParentsOf' = [connectedParentsOf EXCEPT ![b] = @ + 1]
       ELSE UNCHANGED <<peerConnectionsOf, connectedParentsOf>>
    /\ UNCHANGED <<deviceDataId, onmessageOf, requestsPosted>>
    /\ UNCHANGED otherThanSenders

\* No sender has started and nothing was posted; the senders' ids are f.
SendersInitWith(f) ==
    /\ deviceDataId = f
    /\ onmessageOf = [b \in SenderIds |-> FALSE]
    /\ peerConnectionsOf = [b \in SenderIds |-> {}]
    /\ connectedParentsOf = [b \in SenderIds |-> 0]
    /\ requestsPosted = {}
    /\ requestsSeen = [b \in SenderIds |-> {}]

SendersInit == \E f \in DeviceIdAssignments : SendersInitWith(f)

\* The senders as the other engines leave them.
SendersIdle == SendersInitWith(CHOOSE f \in DeviceIdAssignments : TRUE)

\* Every connection request a receiver can post.
ConnectionRequests == [parentId : ParentIds, deviceId : Devices]

SendersNext ==
    \/ \E b \in SenderIds, c \in BOOLEAN : SetupNetworkBroadcasting(b, c)
    \/ \E p \in ParentIds, d \in Devices : PostConnectionRequest(p, d)
    \/ \E b \in SenderIds, m \in ConnectionRequests, ok \in BOOLEAN : OnMessage(b, m, ok)

\* ------------------------------------- older receiver: stored-record poll
otherThanStored == <<recvVars, scanVars, sendVars, httpVars, manualVars, netVars, bcVars,
                     sendersVars>>

\* What the value under a key can be: text JSON.parse throws on, a record
\* announced less than 15 s ago, or an older one.
RecordKinds == {"corrupt", "fresh", "stale"}

\* The position of key d in the store, 0 if absent.
KeyIndex(records, d) ==
    IF \E i \in 1..Len(records) : records[i].id = d
    THEN CHOOSE i \in 1..Len(records) : records[i].id = d
    ELSE 0

\* storage.setItem('baby-monitor-' + d, value): a new key goes last, an
\* existing key keeps its place.
SetItem(d, kind) ==
    /\ LET i == KeyIndex(storedRecords, d)
           r == [id |-> d, kind |-> kind] IN
       /\ IF i = 0 THEN TRUE ELSE storedRecords[i] # r
       /\ storedRecords' = IF i = 0 THEN Append(storedRecords, r)
                                    ELSE [storedRecords EXCEPT ![i] = r]
    /\ UNCHANGED <<availableDevices, nChecks>>
    /\ UNCHANGED otherThanStored

\* 15 s pass since the record under key d was announced.
RecordAges(d) ==
    /\ LET i == KeyIndex(storedRecords, d) IN
       /\ i # 0
       /\ storedRecords[i].kind = "fresh"
       /\ storedRecords' = [storedRecords EXCEPT ![i].kind = "stale"]
    /\ UNCHANGED <<availableDevices, nChecks>>
    /\ UNCHANGED otherThanStored

\* The records the loop of checkStorage reads: it runs inside one try block,
\* so the first value JSON.parse throws on ends it.
RecordsRead(records) ==
    IF \E i \in 1..Len(records) : records[i].kind = "corrupt"
    THEN SubSeq(records, 1,
                (CHOOSE i \in 1..Len(records) :
                    /\ records[i].kind = "corrupt"
                    /\ \A j \in 1..(i - 1) : records[j].kind # "corrupt") - 1)
    ELSE records

\* setAvailableDevices(prev => ...) for each record read that is fresh: a
\* known id is replaced in place, a new one is appended.
RECURSIVE AddAvailable(_, _)
AddAvailable(devices, records) ==
    IF records = <<>> THEN devices
    ELSE LET r == Head(records)
             known == \E i \in 1..Len(devices) : devices[i] = r.id IN
         AddAvailable(IF r.kind = "fresh" /\ ~known THEN Append(devices, r.id) ELSE devices,
                      Tail(records))

\* checkStoredDevices: one pass over the store.
CheckStoredDevices ==
    /\ nChecks < MaxChecks
    /\ nChecks' = nChecks + 1
    /\ availableDevices' = AddAvailable(availableDevices, RecordsRead(storedRecords))
    /\ UNCHANGED storedRecords
    /\ UNCHANGED otherThanStored

StoredInit ==
    /\ storedRecords = <<>>
    /\ availableDevices = <<>>
    /\ nChecks = 0

StoredNext ==
    \/ \E d \in Devices, kind \in {"corrupt", "fresh"} : SetItem(d, kind)
    \/ \E d \in Devices : RecordAges(d)
    \/ CheckStoredDevices

\* ------------------------------------------------- broadcast variant
NoMessage == [type |-> "none", parentId |-> 0, request |-> 0]

\* Date.now() moves on.
BcClockTick ==
    /\ bcNow < MaxClock
    /\ bcNow' = bcNow + 1
    /\ UNCHANGED <<bcStep, bcParentId, bcWire, bcRegistry, bcClosed,
                   bcConnectedParents, bcHandled, nBcConnects>>
    /\ UNCHANGED otherThanBc

\* Receiver, connectToDevice: the offer is made and the connection-request
\* posted with parentId parent-<Date.now()>.
BcConnectToDevice ==
    /\ bcStep = "idle"
    /\ nBcConnects < MaxBcConnects
    /\ nBcConnects' = nBcConnects + 1
    /\ bcStep' = "requested"
    /\ bcParentId' = bcNow
    /\ bcWire' = Append(bcWire, [type |-> "connection-request",
                                 parentId |-> bcNow, request |-> bcNow])
    /\ UNCHANGED <<bcNow, bcRegistry, bcClosed, bcConnectedParents, bcHandled>>
    /\ UNCHANGED otherThanBc

\* Receiver, handleConnectionAnswer: the sender's answer has come.
BcHandleConnectionAnswer ==
    /\ bcStep = "requested"
    /\ bcParentId \in bcRegistry
    /\ bcStep' = "connected"
    /\ UNCHANGED <<bcNow, bcParentId, bcWire, bcRegistry, bcClosed,
                   bcConnectedParents, bcHandled, nBcConnects>>
    /\ UNCHANGED otherThanBc

\* Receiver, disconnect: the pc is closed and parent-disconnected posted with
\* parentId parent-<Date.now()>, computed anew. The request field records
\* which request the notice belongs to; it is not part of the message.
BcDisconnect ==
    /\ bcStep = "connected"
    /\ bcStep' = "idle"
    /\ bcWire' = Append(bcWire, [type |-> "parent-disconnected",
                                 parentId |-> bcNow, request |-> bcParentId])
    /\ UNCHANGED <<bcNow, bcParentId, bcRegistry, bcClosed, bcConnectedParents,
                   bcHandled, nBcConnects>>
    /\ UNCHANGED otherThanBc

\* Sender, broadcastChannelRef.onmessage on the oldest posted message (the
\* sender is streaming). connection-request: handleParentConnection registers
\* a pc under parentId and raises the count. parent-disconnected:
\* handleParentDisconnection(parentId) closes and deletes the pc registered
\* under that id, if any, and lowers the count.
BcOnMessage ==
    /\ bcWire # <<>>
    /\ LET m == Head(bcWire) IN
       /\ bcHandled' = m
       /\ bcWire' = Tail(bcWire)
       /\ IF m.type = "connection-request"
          THEN /\ bcRegistry' = bcRegistry \cup {m.parentId}
               /\ bcConnectedParents' = bcConnectedParents + 1
               /\ UNCHANGED bcClosed
          ELSE IF m.parentId \in bcRegistry
          THEN /\ bcRegistry' = bcRegistry \ {m.parentId}
               /\ bcClosed' = bcClosed \cup {m.parentId}
               /\ bcConnectedParents' = DecrementParents(bcConnectedParents)
          ELSE UNCHANGED <<bcRegistry, bcClosed, bcConnectedParents>>
    /\ UNCHANGED <<bcNow, bcStep, bcParentId, nBcConnects>>
    /\ UNCHANGED otherThanBc

BcInit ==
    /\ bcNow = 1
    /\ bcStep = "idle"
    /\ bcParentId = 0
    /\ bcWire = <<>>
    /\ bcRegistry = {}
    /\ bcClosed = {}
    /\ bcConnectedParents = 0
    /\ bcHandled = NoMessage
    /\ nBcConnects = 0

BcNext ==
    \/ BcClockTick
    \/ BcConnectToDevice
    \/ BcHandleConnectionAnswer
    \/ BcDisconnect
    \/ BcOnMessage

ManualInit ==
    /\ manualIp = ""
    /\ manualPort = ""
    /\ requested = [s \in SessionIds |-> NoRecord]

\* Manual connection while a scan is in its last second: the inputs are
\* typed (here only before the first attempt), Connect Manually is pressed,
\* the attempt runs its course, and the scan's cleanup tick, timeout and
\* Stop Scan happen in between.
TypeIpFirst(v) == nSessions = 0 /\ SetManualIp(v)
TypePortFirst(v) == nSessions = 0 /\ SetManualPort(v)

ManualNext ==
    \/ \E v \in IpInputs : TypeIpFirst(v)
    \/ \E v \in PortInputs : TypePortFirst(v)
    \/ \E ok \in BOOLEAN : ConnectManual(ok)
    \/ \E s \in SessionIds, ok \in BOOLEAN : CreateOfferDone(s, ok)
    \/ \E s \in SessionIds, o \in {"ok", "setLocalFails", "transmitFails"} : SetLocalDone(s, o)
    \/ \E s \in SessionIds, wf \in BOOLEAN : HandleAnswer(s, wf)
    \/ \E s \in SessionIds : ConnectionTimeout(s)
    \/ \E s \in SessionIds : TransportConnected(s)
    \/ \E s \in SessionIds, k \in {"disconnected", "failed"} : TransportDown(s, k)
    \/ Disconnect
    \/ \E s \in ScanIds : CleanupTick(s)
    \/ \E s \in ScanIds : ScanTimeout(s)
    \/ StopScanning

vars == <<recvVars, scanVars, sendVars, httpVars, manualVars, netVars, bcVars, sendersVars,
          storedVars>>

\* Every specification starts all three engines in their constructed state;
\* only the scan specification lets senders have stored records beforehand.
\* The receiver right after connectToDevice has run to its end for the first
\* time: offer created and set, request posted, handlers and timer installed.
OfferSentInit ==
    /\ connectedDevice = NoDevice
    /\ isConnecting = TRUE
    /\ peerConnectionRef = 1
    /\ mounted = TRUE
    /\ nSessions = 1
    /\ sess = [s \in SessionIds |->
                 IF s = 1
                 THEN [IdleSession EXCEPT !.step = "offerSent",
                                          !.closure = NoDevice,
                                          !.pc = "open",
                                          !.requests = 1,
                                          !.channel = TRUE,
                                          !.timer = "pending",
                                          !.handlers = TRUE]
                 ELSE IdleSession]

\* What can happen to a connection attempt once its request is out: its pc
\* discovers candidates, the channel delivers candidates and answers, the
\* timer fires, the transport changes state, the user disconnects or leaves.
CandidateNext ==
    \/ \E s \in SessionIds, ok \in BOOLEAN : LocalCandidate(s, ok)
    \/ \E s \in SessionIds : HandleCandidate(s)
    \/ \E s \in SessionIds, wf \in BOOLEAN : HandleAnswer(s, wf)
    \/ \E s \in SessionIds : ConnectionTimeout(s)
    \/ \E s \in SessionIds : TransportConnected(s)
    \/ \E s \in SessionIds, k \in {"disconnected", "failed"} : TransportDown(s, k)
    \/ Disconnect
    \/ Unmount

InitReceiver == RecvInit /\ SendInit /\ ScanInit /\ NoStoredRecords /\ HttpInit /\ ManualInit /\ NetInit /\ BcInit /\ SendersIdle /\ StoredInit

InitScan == RecvInit /\ SendInit /\ ScanInit /\ HttpInit /\ ManualInit /\ NetInit /\ BcInit /\ SendersIdle /\ StoredInit

InitSender == RecvInit /\ ScanInit /\ NoStoredRecords /\ SendInit /\ HttpInit /\ ManualInit /\ NetInit /\ BcInit /\ SendersIdle /\ StoredInit

InitExpire == RecvInit /\ SendInit /\ ExpireInit /\ HttpInit /\ ManualInit /\ NetInit /\ BcInit /\ SendersIdle /\ StoredInit

InitScanEnd == RecvInit /\ SendInit /\ ScanEndInit /\ HttpInit /\ ManualInit /\ NetInit /\ BcInit /\ SendersIdle /\ StoredInit

SpecReceiver == InitReceiver /\ [][RecvNext]_vars
InitCandidates == OfferSentInit /\ SendInit /\ ScanInit /\ NoStoredRecords /\ HttpInit /\ ManualInit /\ NetInit /\ BcInit /\ SendersIdle /\ StoredInit
SpecCandidates == InitCandidates /\ [][CandidateNext]_vars

SpecScan == InitScan /\ [][ScanNext]_vars

SpecSender == InitSender /\ [][SendNext]_vars

SpecExpire == InitExpire /\ [][ExpireNext]_vars

SpecScanEnd == InitScanEnd /\ [][ScanEndNext]_vars

SpecAnnounce == InitSender /\ [][AnnounceNext]_vars

InitManual == RecvInit /\ SendInit /\ ManualScanInit /\ HttpInit /\ ManualInit /\ NetInit /\ BcInit /\ SendersIdle /\ StoredInit
SpecManual == InitManual /\ [][ManualNext]_vars

\* The channels dispatch every message and the sender's awaits settle.
HandshakeFairness ==
    /\ WF_vars(\E m \in Messages : Dispatch(m))
    /\ WF_vars(\E x \in PcIds : AnswerReady(x, TRUE))

InitHandshake == RecvInit /\ SendInit /\ ScanInit /\ NoStoredRecords /\ HttpInit /\ ManualInit /\ NetInit /\ BcInit /\ SendersIdle /\ StoredInit
SpecHandshake == InitHandshake /\ [][HandshakeNext]_vars /\ HandshakeFairness

InitBroadcast == BcInit /\ RecvInit /\ SendInit /\ ScanInit /\ NoStoredRecords /\ HttpInit /\ ManualInit /\ NetInit /\ SendersIdle /\ StoredInit
SpecBroadcast == InitBroadcast /\ [][BcNext]_vars

InitSenders == SendersInit /\ RecvInit /\ SendInit /\ ScanInit /\ NoStoredRecords /\ HttpInit /\ ManualInit /\ NetInit /\ BcInit /\ StoredInit
SpecSenders == InitSenders /\ [][SendersNext]_vars

InitStored == StoredInit /\ RecvInit /\ SendInit /\ ScanInit /\ NoStoredRecords /\ HttpInit /\ ManualInit /\ NetInit /\ BcInit /\ SendersIdle
SpecStored == InitStored /\ [][StoredNext]_vars

InitEndpoints == HttpInit /\ RecvInit /\ SendInit /\ ScanInit /\ NoStoredRecords /\ ManualInit /\ NetInit /\ BcInit /\ SendersIdle /\ StoredInit
SpecEndpoints == InitEndpoints /\ [][HttpNext]_vars

\* ---------------------------------------------------- receiver: phases
\* The SessionState phases of the specification, read off the locals of a call.
\* An attempt is over once its catch block ran, an answer failed to apply,
\* its timeout closed it, or its pc was closed.
AnswerFailed(s) == sess[s].answers > 0 /\ ~sess[s].remoteSet

NonTerminal(s) ==
    /\ sess[s].step \in {"pcCreated", "offerCreated", "offerSent"}
    /\ sess[s].pc = "open"
    /\ sess[s].timer # "fired"
    /\ ~AnswerFailed(s)

\* The attempt's deadline passed without any answer having been delivered.
TimedOutNoAnswer(s) == sess[s].timer = "fired" /\ sess[s].answers = 0

\* ---------------------------------------------------------------- C1
\* C1: a connectToDevice call made while an earlier session is non-terminal
\* is rejected: no step creates a peer connection or sends a ConnectionRequest
\* for a new attempt while another attempt is non-terminal.
C1_SecondConnectRejected ==
    [][\A s \in SessionIds :
          (sess[s].pc = "none" /\ \E r \in SessionIds : r # s /\ NonTerminal(r))
              => (sess'[s].pc = "none" /\ sess'[s].requests = 0)]_vars

\* ---------------------------------------------------------------- C2
\* C2: a session whose offer was sent and that got no answer before the 15 s
\* deadline leaves the receiver neither connecting nor connected when the
\* timeout fires, and its peer connection has been closed exactly once,
\* whoever closed it (timeout, disconnect, transport-failure handler).
C2_TimedOutClosedOnce ==
    [][\A s \in SessionIds :
          TimedOutNoAnswer(s)' =>
              /\ sess'[s].closes = 1
              /\ (sess[s].timer = "pending" =>
                     (~isConnecting' /\ connectedDevice' = NoDevice))]_vars

\* ---------------------------------------------------------------- C5
\* C5: addIceCandidate is never invoked on a peer connection without a remote
\* description, and on a session whose answer has been set every candidate
\* received so far has been applied, once each, in arrival order.
C5_CandidatesQueuedUntilAnswer ==
    \A s \in SessionIds :
        /\ sess[s].badAdds = 0
        /\ (sess[s].remoteSet /\ sess[s].pc = "open")
               => sess[s].applied = sess[s].received

\* ---------------------------------------------------------------- C9
\* C9: when a step of the offer phase raises, the attempt's peer connection
\* is closed, the receiver is neither connecting nor connected, and no new
\* attempt is started by the failure.
C9_OfferPhaseFailureCloses ==
    [][\A s \in SessionIds :
          (sess[s].step # "failed" /\ sess'[s].step = "failed") =>
              /\ sess'[s].pc # "open"
              /\ ~isConnecting'
              /\ connectedDevice' = NoDevice
              /\ \A r \in SessionIds : r # s => sess'[r].step = sess[r].step]_vars

\* ---------------------------------------------------------------- C10
\* C10: when the latest attempt times out before its transport connected, or
\* fails, the receiver shows no connected device, is not connecting, and the
\* next connectToDevice call is accepted.
AttemptEnds(s) ==
    \/ sess[s].step # "failed" /\ sess'[s].step = "failed"
    \/ ~AnswerFailed(s) /\ AnswerFailed(s)'
    \/ /\ sess[s].timer = "pending" /\ sess'[s].timer = "fired"
       /\ sess[s].transport # "connected"

C10_FailureResetsVisibleState ==
    [][(nSessions > 0 /\ nSessions' = nSessions /\ AttemptEnds(nSessions)) =>
          /\ connectedDevice' = NoDevice
          /\ ~isConnecting'
          /\ ConnectAccepted']_vars

\* ------------------------------------------------------------------ sender
\* C3: The connected-parents count equals the number of sessions whose
\* transport has reported connected (and is still up); creating an answer
\* alone never changes it.
C3_CountEqualsConnectedTransports ==
    connectedParents =
        Cardinality({x \in PcIds : spc[x].state = "open" /\ spc[x].transport = "connected"})

\* The step is a transport disconnected/failed event on pc x.
TransportWentDown(x) ==
    /\ spc'[x].transport # spc[x].transport
    /\ spc'[x].transport \in {"disconnected", "failed"}

\* C4: A transport disconnected/failed event on a session of receiver p, while
\* p has a registered peer connection, closes and unregisters exactly that
\* peer connection and lowers the count by exactly one; the registry entry
\* and the peer connections of every other receiver are unchanged.
C4_DisconnectTouchesOneReceiver ==
    [][\A x \in PcIds :
          (TransportWentDown(x) /\ peerConnectionsRef[spc[x].parent] # NoPc) =>
              LET p == spc[x].parent
                  r == peerConnectionsRef[p]
              IN  /\ peerConnectionsRef'[p] = NoPc
                  /\ spc'[r].state = "closed"
                  /\ spc'[r].closes = spc[r].closes + 1
                  /\ connectedParents' = connectedParents - 1
                  /\ \A q \in ParentIds \ {p} : peerConnectionsRef'[q] = peerConnectionsRef[q]
                  /\ \A y \in PcIds : spc[y].parent # p => spc'[y] = spc[y]]_vars

\* Two receivers were connected; the first one's transport failed and its
\* peer connection is closed and unregistered, the second one's is still
\* registered, open and connected, and the count is one.
C4_Witness ==
    \E x, y \in PcIds :
        /\ spc[x].step = "answered" /\ spc[y].step = "answered"
        /\ spc[x].parent # spc[y].parent
        /\ spc[x].transport = "failed" /\ spc[x].state = "closed" /\ spc[x].closes = 1
        /\ peerConnectionsRef[spc[x].parent] = NoPc
        /\ peerConnectionsRef[spc[y].parent] = y
        /\ spc[y].state = "open" /\ spc[y].transport = "connected"
        /\ connectedParents = 1

\* -------------------------------------------------------------------- scan
\* The step is a call of stopScanning.
StopStep ==
    /\ isScanning /\ ~isScanning'
    /\ scans' = scans

\* C6: When stopScanning returns the directory is empty and no scan has its
\* intervals, timeout or channel subscription active, nor is one still
\* setting them up.
C6_StopScanningQuiesces ==
    [][StopStep =>
          /\ discoveredDevices' = <<>>
          /\ \A s \in ScanIds : scans'[s].step \notin {"status", "running"}]_vars

Entries(devs) == {devs[i] : i \in 1..Len(devs)}

UniqueIds(devs) ==
    \A i, j \in 1..Len(devs) : devs[i].id = devs[j].id => i = j

\* C7: The directory holds at most one entry per device id, and every entry
\* a step writes carries lastSeen equal to the time it was applied.
C7_OneEntryPerIdFreshLastSeen ==
    [][/\ UniqueIds(discoveredDevices')
       /\ \A e \in Entries(discoveredDevices') \ Entries(discoveredDevices) :
              e.lastSeen = now']_vars

\* The step is a run of the cleanup interval's callback.
CleanupRan ==
    \E s \in ScanIds :
        /\ scans[s].step = "running"
        /\ scans'[s].nextCleanup = scans[s].nextCleanup + CleanupPeriod

C11_LateAnswerIgnored ==
    [][\A s \in SessionIds :
          (/\ sess'[s].answers = sess[s].answers + 1
           /\ (sess[s].pc = "closed" \/ sess[s].remoteSet)) =>
              /\ connectedDevice' = connectedDevice
              /\ isConnecting' = isConnecting
              /\ sess'[s].remoteSet = sess[s].remoteSet]_vars

\* ---------------------------------------------------------------- C12
\* The step reports transport disconnected/failed on the pc of session s.
ReceiverTransportWentDown(s) ==
    /\ sess'[s].transport # sess[s].transport
    /\ sess'[s].transport \in {"disconnected", "failed"}

\* The step is the Disconnect button's handler, pressed while s is connected.
DisconnectPressed(s) ==
    /\ mounted /\ mounted'
    /\ connectedDevice = s /\ connectedDevice' = NoDevice
    /\ \A r \in SessionIds : sess'[r].transport = sess[r].transport

\* C12: When a session is torn down by disconnect or by a transport
\* disconnected/failed report, its peer connection is closed and dropped, no
\* device is connected, the receiver is not connecting, and the next
\* connectToDevice call is accepted.
C12_TeardownClosesSession ==
    [][\A s \in SessionIds :
          (ReceiverTransportWentDown(s) \/ DisconnectPressed(s)) =>
              /\ sess'[s].pc = "closed"
              /\ peerConnectionRef' = NoSession
              /\ connectedDevice' = NoDevice
              /\ ~isConnecting'
              /\ ConnectAccepted']_vars

\* ---------------------------------------------------------------- C13
\* C13: While no local media stream is bound, no connection request makes
\* the sender create a peer connection (and so none is answered or
\* registered).
C13_NoNegotiationWithoutStream ==
    [][~streamRef => nPcs' = nPcs]_vars

\* ---------------------------------------------------------------- C14
\* The step is startMonitoring on a connected network.
StartedOnNetwork ==
    /\ ~isStreaming /\ isStreaming'
    /\ listeners' = listeners + 1

\* C14: Starting on a connected network writes the durable record and
\* publishes one announcement at once, and every firing of the 2 s interval
\* while streaming publishes another.
C14_AnnouncesOnStartAndEveryTick ==
    [][/\ StartedOnNetwork => (record' /\ announced' = announced + 1)
       /\ (isStreaming /\ nTicks' = nTicks + 1) => announced' = announced + 1]_vars

\* ---------------------------------------------------------------- C15
\* C15: Once stopMonitoring has run, no stored record of this sender remains.
C15_StopRemovesRecord ==
    [][(isStreaming /\ ~isStreaming') => ~record']_vars

\* ---------------------------------------------------------------- C16
\* C16: A directory entry created from an announcement is removed by the
\* first cleanup tick after its age exceeds the 15 s TTL, so no such entry is
\* ever older than the TTL plus one cleanup period.
C16_SilentEntryExpires ==
    \A i \in 1..Len(discoveredDevices) :
        discoveredDevices[i].connectionMethod = "broadcast" =>
            now - discoveredDevices[i].lastSeen <= DeviceTTL + CleanupPeriod

\* ---------------------------------------------------------------- C17
\* The step is the scan timeout of scan s.
TimeoutRan(s) == scans[s].step = "running" /\ scans'[s].step = "ended"

\* C17: When a scan's timeout runs, scanning is set to false, the scan's
\* intervals and channel subscription end, and the directory keeps exactly
\* its entries; with no scan active the directory no longer changes.
C17_TimeoutKeepsDirectory ==
    [][/\ \A s \in ScanIds :
             TimeoutRan(s) =>
                 /\ ~isScanning'
                 /\ ~TimerPending(s)'
                 /\ discoveredDevices' = discoveredDevices
       /\ (\A s \in ScanIds : scans[s].step \in {"none", "ended", "aborted"}) =>
              discoveredDevices' = discoveredDevices]_vars

\* A scan has ended by its timeout and the directory still holds an entry
\* found in storage during the scan.
C17_Witness ==
    /\ ~isScanning
    /\ \E s \in ScanIds : scans[s].step = "ended"
    /\ \E i \in 1..Len(discoveredDevices) :
          discoveredDevices[i].connectionMethod = "network"

\* ---------------------------------------------------------------- C18
\* C18: Every entry a step writes into the directory comes from an
\* announcement or stored record whose timestamp is within the 10 s
\* freshness window; a staler one adds and refreshes nothing.
C18_OnlyFreshAnnouncementsApplied ==
    [][\A e \in Entries(discoveredDevices') \ Entries(discoveredDevices) :
          now - e.timestamp < StorageFreshness]_vars

\* ---------------------------------------------------------------- C19
\* C19 as stated: Every candidate a session's peer connection discovered has
\* been transmitted as its own message, in discovery order; none is dropped.
C19_AllCandidatesSentInOrder ==
    \A s \in SessionIds :
        sess[s].sent = [i \in 1..sess[s].gathered |-> i]

\* C19 as amended: The candidates transmitted for a session are candidates
\* it discovered, one message each, in discovery order; a candidate is
\* missing only if its postMessage threw.
C19_SentInOrderUnlessThrown ==
    \A s \in SessionIds :
        /\ Len(sess[s].sent) + sess[s].txErrors = sess[s].gathered
        /\ \A i \in 1..Len(sess[s].sent) : sess[s].sent[i] \in 1..sess[s].gathered
        /\ \A i, j \in 1..Len(sess[s].sent) : i < j => sess[s].sent[i] < sess[s].sent[j]

\* A session has discovered two candidates and transmitted both, in order.
C19_Witness ==
    \E s \in SessionIds : sess[s].gathered = 2 /\ sess[s].sent = <<1, 2>>

\* ---------------------------------------------------------------- C20
\* The step handled a candidate of session s and raised: postMessage threw
\* in onicecandidate, or addIceCandidate rejected.
CandidateErrored(s) ==
    \/ sess'[s].txErrors = sess[s].txErrors + 1
    \/ /\ Len(sess'[s].received) = Len(sess[s].received) + 1
       /\ sess'[s].applied = sess[s].applied

\* C20: An error while one candidate is transmitted or applied changes
\* neither the session's phase, peer connection, channel subscription or
\* timer, nor the connected device or the connecting flag.
C20_CandidateErrorSwallowed ==
    [][\A s \in SessionIds :
          CandidateErrored(s) =>
              /\ sess'[s].step = sess[s].step
              /\ sess'[s].pc = sess[s].pc
              /\ sess'[s].closes = sess[s].closes
              /\ sess'[s].remoteSet = sess[s].remoteSet
              /\ sess'[s].channel = sess[s].channel
              /\ sess'[s].handlers = sess[s].handlers
              /\ sess'[s].timer = sess[s].timer
              /\ connectedDevice' = connectedDevice
              /\ isConnecting' = isConnecting
              /\ peerConnectionRef' = peerConnectionRef]_vars

\* A session whose first candidate was rejected (it came before the answer)
\* has since had its answer applied and its second candidate accepted.
C20_Witness ==
    \E s \in SessionIds :
        /\ Len(sess[s].received) = 2
        /\ sess[s].applied = <<2>>
        /\ sess[s].remoteSet
        /\ connectedDevice = s

\* ---------------------------------------------------------------- C21
\* What was stored for the ids other than p.
OtherLists(m, p) == [q \in (DOMAIN m) \ {p} |-> m[q]]

\* C21: get-candidates for an id returns, in arrival order, exactly the
\* candidates posted for that id since the previous read and clears them:
\* everything read so far followed by what is still stored is what was
\* posted, a read leaves nothing stored under its id and leaves the other
\* ids' lists alone, and a read that directly follows a read of the same id
\* returns the empty list.
C21_GetCandidatesDrains ==
    [][/\ \A p \in ParentIds :
            drained'[p] \o GetOrEmpty(candidates', p) = posted'[p]
       /\ (lastCall'.op = "get" /\ nReads' = nReads + 1) =>
            /\ lastCall'.result = GetOrEmpty(candidates, lastCall'.parentId)
            /\ GetOrEmpty(candidates', lastCall'.parentId) = <<>>
            /\ OtherLists(candidates', lastCall'.parentId)
                 = OtherLists(candidates, lastCall'.parentId)
            /\ (lastCall.op = "get" /\ lastCall.parentId = lastCall'.parentId) =>
                 lastCall'.result = <<>>]_vars

\* Two candidates posted for one id and one for another; the first id was
\* read (both returned, in order) and read again at once (nothing returned),
\* while the other id's candidate is still stored.
C21_Witness ==
    \E p, q \in ParentIds :
        /\ p # q
        /\ Len(drained[p]) = 2
        /\ drained[p] = posted[p]
        /\ lastCall = [op |-> "get", parentId |-> p, result |-> <<>>]
        /\ nReads = 2
        /\ Len(GetOrEmpty(candidates, q)) = 1

\* ---------------------------------------------------------------- C22
\* The step is a session operation: it changed the receiver's session state.
SessionStep == recvVars' # recvVars

\* C22: connectManual starts an attempt only with a non-empty address and
\* port, and then for a record with status active built from those inputs;
\* that step and every other session step (connectToDevice's callbacks,
\* disconnect) leave the device directory as it was.
C22_SessionsNeverWriteDirectory ==
    [][/\ SessionStep => discoveredDevices' = discoveredDevices
       /\ nSessions' # nSessions =>
            /\ manualIp # "" /\ manualPort # ""
            /\ requested'[nSessions'].status = "active"
            /\ requested'[nSessions'].networkAddress = manualIp
            /\ requested'[nSessions'].port = ParseInt(manualPort)
            /\ sess'[nSessions'].step \in {"pcCreated", "failed"}
       /\ (manualIp = "" \/ manualPort = "") =>
            (nSessions' = nSessions /\ requested' = requested)]_vars

\* A manual attempt has sent its offer while the directory lists a device.
C22_Witness ==
    \E s \in SessionIds :
        /\ requested[s] # NoRecord
        /\ sess[s].step = "offerSent"
        /\ Len(discoveredDevices) > 0

\* ---------------------------------------------------------------- C23
\* C23: When the 15 s timer of a session fires while that session's answer
\* has been applied and its transport is connected, the session keeps its
\* peer connection and its signaling channel open and stays connected.
C23_TimeoutSparesConnected ==
    [][\A s \in SessionIds :
          (/\ sess[s].timer = "pending" /\ sess'[s].timer = "fired"
           /\ sess[s].remoteSet
           /\ sess[s].pc = "open"
           /\ sess[s].transport = "connected"
           /\ connectedDevice = s) =>
              /\ sess'[s].pc = "open"
              /\ sess'[s].channel = sess[s].channel
              /\ connectedDevice' = s]_vars

\* ---------------------------------------------------------------- C24
\* C24: The connected device is set only for a session whose peer
\* connection has reported connection state connected.
C24_ConnectedOnlyAfterTransport ==
    [][(connectedDevice' # connectedDevice /\ connectedDevice' # NoDevice) =>
          sess'[connectedDevice'].transport = "connected"]_vars

\* ---------------------------------------------------------------- C25
\* The request of attempt s is out and not yet dispatched while the sender
\* is streaming and listening, and the attempt is waiting for its answer.
RequestAwaitsAnswer(s) ==
    /\ sess[s].requests > 0
    /\ \A m \in Posted : m.parentId = s => m \notin delivered
    /\ sess[s].channel
    /\ sess[s].pc = "open"
    /\ isStreaming
    /\ listeners > 0

\* C25: With every posted message dispatched, a request posted to a
\* streaming sender eventually brings the attempt to AnswerReceived: its
\* remote description is set from the sender's answer.
C25_RequestLeadsToAnswer ==
    \A s \in SessionIds :
        RequestAwaitsAnswer(s) ~> sess[s].remoteSet

\* ---------------------------------------------------------------- C26
\* The sender has just handled a parent-disconnected notice whose receiver's
\* session was still registered.
NoticeHandled ==
    /\ Len(bcWire') < Len(bcWire)
    /\ Head(bcWire).type = "parent-disconnected"
    /\ Head(bcWire).request \in bcRegistry

\* C26: The notice a receiver sends on disconnect carries the session id
\* of its request, and the sender that handles it closes and removes
\* exactly that receiver's session and lowers the connected count by one.
C26_NoticeRemovesItsSession ==
    [][NoticeHandled =>
          /\ Head(bcWire).parentId = Head(bcWire).request
          /\ bcRegistry' = bcRegistry \ {Head(bcWire).request}
          /\ Head(bcWire).request \in bcClosed'
          /\ bcConnectedParents' = bcConnectedParents - 1]_vars

\* ---------------------------------------------------------------- C27
\* C27: However often a request with the same session id is delivered, the
\* sender holds at most one open peer connection for that id, every open
\* answered peer connection is the one registered under its id, and the
\* count does not exceed the number of registered ids plus the calls still
\* in progress.
C27_DuplicateRequestTolerated ==
    /\ \A x, y \in PcIds :
          (/\ x # y
           /\ spc[x].parent = spc[y].parent
           /\ spc[x].step = "answered" /\ spc[y].step = "answered") =>
              ~(spc[x].state = "open" /\ spc[y].state = "open")
    /\ \A x \in PcIds :
          (spc[x].step = "answered" /\ spc[x].state = "open") =>
              peerConnectionsRef[spc[x].parent] = x

\* ---------------------------------------------------------------- C28
Registered == {p \in ParentIds : peerConnectionsRef[p] # NoPc}

\* C28: Whenever no handleParentConnection call is in progress, the
\* connected-parents count equals the number of registry entries, and it is
\* never negative.
C28_CountEqualsRegistrySize ==
    /\ connectedParents >= 0
    /\ (\A x \in PcIds : spc[x].step # "negotiating") =>
          connectedParents = Cardinality(Registered)

\* The same without two calls for one session id.
CountMatchesWithoutDuplicates ==
    (/\ \A x \in PcIds : spc[x].step # "negotiating"
     /\ \A x, y \in PcIds :
           (x # y /\ spc[x].step # "none" /\ spc[y].step # "none") =>
               spc[x].parent # spc[y].parent) =>
        connectedParents = Cardinality(Registered)

\* ---------------------------------------------------------------- C29
\* C29: While the sender is not streaming, its registry is empty, its count
\* is 0 and every peer connection it created is closed; and a step taken
\* while it is not streaming publishes no announcement, starts no
\* negotiation and completes no answer.
C29_InertAfterStop ==
    [][/\ ~isStreaming' =>
            /\ Registered' = {}
            /\ connectedParents' = 0
            /\ \A x \in PcIds : spc'[x].state # "open"
       /\ (~isStreaming /\ ~isStreaming') =>
            /\ announced' = announced
            /\ nPcs' = nPcs
            /\ \A x \in PcIds : spc'[x].step = "answered" => spc[x].step = "answered"]_vars

\* ---------------------------------------------------------------- C30
\* The scans whose machinery exists or is being set up.
ActiveScans == {s \in ScanIds : scans[s].step \in {"status", "running"}}

\* C30: The scanning flag is true exactly while one scan has its intervals,
\* timeout and channel subscription active (or is setting them up), and
\* there is never more than one such scan.
C30_FlagAgreesWithMachinery ==
    /\ Cardinality(ActiveScans) <= 1
    /\ isScanning <=> (Cardinality(ActiveScans) = 1)

\* ---------------------------------------------------------------- C31
\* The step is a 2 s poll tick of some scan.
PollTick == \E s \in ScanIds : scans'[s].nextDiscovery # scans[s].nextDiscovery
                                /\ scans[s].step = "running" /\ scans'[s].step = "running"

\* The ids for which the poll finds a fresh stored record.
PolledIds == {d \in Devices : storage[d] # 0 /\ now - storage[d] < StorageFreshness}

\* C31: A 2 s poll tick leaves every entry learned from a broadcast
\* announcement in the directory, unchanged, unless the poll itself found a
\* record for that entry's id; and applying an announcement of one id
\* leaves the entries of all other ids unchanged.
C31_UpsertLeavesOtherIds ==
    [][/\ PollTick =>
            \A e \in Entries(discoveredDevices) :
                (e.connectionMethod = "broadcast" /\ e.id \notin PolledIds) =>
                    e \in Entries(discoveredDevices')
       /\ (nSenderEvents' = nSenderEvents + 1 /\ storage' = storage) =>
            \E d \in Devices :
                \A e \in Entries(discoveredDevices) :
                    e.id # d => e \in Entries(discoveredDevices')]_vars

\* ---------------------------------------------------------------- C32
\* The step is the failure of call x of handleParentConnection.
AnswerFailedStep(x) == spc[x].step = "negotiating" /\ spc'[x].step = "failed"

\* C32: When answering an offer fails, nothing is registered, the count
\* and every other call's peer connection are unchanged, and the sender's
\* channel handlers, advertising state and streaming flag stay as they were.
C32_AnswerFailureContained ==
    [][\A x \in PcIds :
          AnswerFailedStep(x) =>
              /\ peerConnectionsRef' = peerConnectionsRef
              /\ connectedParents' = connectedParents
              /\ \A y \in PcIds : y # x => spc'[y] = spc[y]
              /\ listeners' = listeners
              /\ isStreaming' = isStreaming
              /\ announceVars' = announceVars]_vars

\* A call failed while another session was registered, and a later call was
\* answered and registered.
C32_Witness ==
    \E x, y \in PcIds :
        /\ x < y
        /\ spc[x].step = "failed"
        /\ spc[y].step = "answered"
        /\ peerConnectionsRef[spc[y].parent] = y
        /\ connectedParents = 1

\* ---------------------------------------------------------------- C33
DownStates == {"disconnected", "failed"}

\* The step is a 'disconnected' or 'failed' report of pc x, which calls
\* handleParentDisconnection with the receiver id of x.
TeardownSignalled(x) ==
    /\ spc'[x].transport # spc[x].transport
    /\ spc'[x].transport \in DownStates

\* C33: A teardown for a receiver id that is registered closes its peer
\* connection once, removes its registry entry and lowers the count once; a
\* teardown for an id that is not (or no longer) registered changes nothing;
\* no peer connection is ever closed twice.
C33_TeardownIdempotent ==
    [][\A x \in PcIds :
          TeardownSignalled(x) =>
              LET p == spc[x].parent
                  y == peerConnectionsRef[p] IN
              IF y = NoPc
              THEN /\ peerConnectionsRef' = peerConnectionsRef
                   /\ connectedParents' = connectedParents
                   /\ \A z \in PcIds : /\ spc'[z].state = spc[z].state
                                       /\ spc'[z].closes = spc[z].closes
              ELSE /\ spc[y].closes = 0
                   /\ spc'[y].closes = 1
                   /\ spc'[y].state = "closed"
                   /\ peerConnectionsRef'[p] = NoPc
                   /\ connectedParents' = DecrementParents(connectedParents)]_vars

\* Two teardowns were signalled for one receiver id: one of its two peer
\* connections is closed, once, the entry is gone and the count was lowered
\* once from 2.
C33_Witness ==
    \E x, y \in PcIds :
        /\ x # y
        /\ spc[x].parent = spc[y].parent
        /\ spc[x].transport \in DownStates
        /\ spc[y].transport \in DownStates
        /\ peerConnectionsRef[spc[x].parent] = NoPc
        /\ spc[x].closes + spc[y].closes = 1
        /\ connectedParents = 1

\* ---------------------------------------------------------------- C34
\* The step applies a connection-answer or an ice-candidate-response in the
\* handler of attempt s.
MessageApplied(s) ==
    \/ sess'[s].answers # sess[s].answers
    \/ sess'[s].received # sess[s].received

\* The attempts that have posted a connection request.
Requested == {s \in SessionIds : sess[s].requests > 0}

\* C34: The receiver acts on an answer or a remote candidate only when it
\* carries the session id of its current (latest) connection request.
C34_OnlyCurrentRequestAnswered ==
    [][\A s \in SessionIds :
          MessageApplied(s) => \A r \in Requested : r <= s]_vars

\* ---------------------------------------------------------------- C35
\* The step is sender b's handler being handed request m.
Handed(b, m) == m \notin requestsSeen[b] /\ m \in requestsSeen'[b]

\* C35: A sender that is handed a connection request changes its sessions
\* only when the request's target id is its own id, and then only for the
\* parentId of that request; the other senders are left as they were.
C35_OnlyTargetAnswers ==
    [][\A b \in SenderIds, m \in ConnectionRequests :
          Handed(b, m) =>
              /\ m.deviceId # deviceDataId[b] =>
                    /\ peerConnectionsOf' = peerConnectionsOf
                    /\ connectedParentsOf' = connectedParentsOf
              /\ peerConnectionsOf'[b] \subseteq peerConnectionsOf[b] \cup {m.parentId}
              /\ \A c \in SenderIds : c # b =>
                    /\ peerConnectionsOf'[c] = peerConnectionsOf[c]
                    /\ connectedParentsOf'[c] = connectedParentsOf[c]]_vars

\* Every started sender has been handed one request; the sender it is aimed
\* at holds the session, the others hold none.
C35_Witness ==
    \E m \in requestsPosted :
        /\ \A b \in SenderIds : onmessageOf[b] /\ m \in requestsSeen[b]
        /\ \E b \in SenderIds :
              /\ deviceDataId[b] = m.deviceId
              /\ peerConnectionsOf[b] = {m.parentId}
              /\ connectedParentsOf[b] = 1
              /\ \A c \in SenderIds : c # b =>
                    peerConnectionsOf[c] = {} /\ connectedParentsOf[c] = 0

\* ---------------------------------------------------------------- C36
\* The sender's session of call x has ended: its peer connection was
\* answered and has been closed, and no other call holds a live session for
\* the same receiver.
SenderSessionEnded(x) ==
    /\ spc[x].step = "answered"
    /\ spc[x].state = "closed"
    /\ \A y \in PcIds :
          (spc[y].parent = spc[x].parent /\ spc[y].step \in {"negotiating", "answered"})
              => spc[y].state = "closed"

\* C36: Once a session has ended, the answer the sender stored for it is no
\* longer in the durable store.
C36_NoSignalingKeyAfterEnd ==
    \A x \in PcIds : SenderSessionEnded(x) => spc[x].parent \notin answerKeys

\* ---------------------------------------------------------------- C37
\* The ids of the fresh records in the store.
FreshIds == {storedRecords[i].id :
                i \in {j \in 1..Len(storedRecords) : storedRecords[j].kind = "fresh"}}

AvailableIds == {availableDevices[i] : i \in 1..Len(availableDevices)}

\* C37: A poll of a store that holds an unparsable record still discovers
\* every valid fresh record of that store, and keeps the entries it had.
C37_CorruptRecordSkipped ==
    [][nChecks' # nChecks =>
          /\ FreshIds \subseteq {availableDevices'[i] : i \in 1..Len(availableDevices')}
          /\ AvailableIds \subseteq {availableDevices'[i] : i \in 1..Len(availableDevices')}]_vars

\* ---------------------------------------------------------------- C38
\* The entry of device d in a directory that holds one.
EntryOf(devs, d) == devs[FindIndex(devs, d)]

\* The time the entry says its device was first seen: the code keeps no
\* time of its own for that, the entry carries the sender's timestamp.
DiscoveredAt(e) == e.timestamp

\* C38: A step that keeps an id in the directory keeps its first-discovered
\* time, and no entry was last seen before it was first discovered.
C38_DiscoveredAtKept ==
    [][/\ \A d \in Devices :
             (FindIndex(discoveredDevices, d) > 0 /\ FindIndex(discoveredDevices', d) > 0)
                 => DiscoveredAt(EntryOf(discoveredDevices', d))
                        = DiscoveredAt(EntryOf(discoveredDevices, d))
       /\ \A e \in Entries(discoveredDevices') : e.lastSeen >= DiscoveredAt(e)]_vars

====
